---- MODULE Spec2Model ----
(***************************************************************************)
(* State-machine model of pharma_news_ai: the Twitter text block of the    *)
(* Post Generator, the extractive summariser of the Content Processor,     *)
(* the Social Poster's dispatch loop and the News Fetcher's fetch loop.    *)
(* Each component has its own specification (SpecTwitter, SpecExtract,     *)
(* SpecPoster, SpecFetch); the variables of the other components stay at   *)
(* their idle values.                                                      *)
(*                                                                         *)
(* Python texts are TLA+ strings (Len, \o and SubSeq act on them as on     *)
(* Python str); Python lists are sequences; dicts are functions whose      *)
(* DOMAIN is the key set.                                                  *)
(***************************************************************************)
EXTENDS Integers, Sequences, FiniteSets, TLC

VARIABLES
    \* ---- PostGenerator._generate_twitter_post
    title,              \* argument title
    link,               \* argument link
    post,               \* the cleaned generated text, before truncation
    twitter_post,       \* the returned text block
    tw_pc,              \* "call" | "generated" | "fallback"
    \* ---- ContentProcessor.extract_key_sentences
    sentences,          \* sent_tokenize(text)
    num_sentences,      \* argument num_sentences
    ranked_indices,     \* the local ranked_indices (<<>> when all are returned)
    key_sentences,      \* the returned string, as the list of its sentences
    ex_pc,              \* "call" | "all" | "ranked"
    \* ---- SocialPoster
    credentials,        \* keys of self.credentials
    self_platforms,     \* self.platforms
    posts,              \* argument posts of post_to_platforms
    requested,          \* argument platforms of post_to_platforms (<<>> is None / [])
    platforms,          \* the local list: platforms or self.platforms
    sp_i,               \* position of the for loop over platforms
    results,            \* the local dict results
    stub_calls,         \* the stubs invoked so far, in order
    stub_raised,        \* the platforms whose stub raised, with the message
    sp_pc,              \* "new" | "ready" | "loop" | "returned" | "raised"
    \* ---- NewsFetcher.fetch_articles
    rss_feeds,          \* self.rss_feeds
    max_articles,       \* argument max_articles
    save,               \* argument save
    articles_per_feed,  \* the per-feed quota
    nf_feed,            \* position of the loop over self.rss_feeds
    nf_entry,           \* position of the loop over feed.entries[:articles_per_feed]
    feed,               \* the local feed: the feed parsed last
    feed_start,         \* len(all_articles) when that feed was parsed
    all_articles,       \* the local list all_articles
    fetch_log,          \* the errors the run logged: feed errors, download errors
    files,              \* the data directory: file name -> content
    nf_pc,              \* "new" | "ready" | "feeds" | "entries" | "returned"
    \* ---- ContentProcessor.generate_summary
    gs_text,            \* argument text
    gs_max_length,      \* argument max_length
    gs_min_length,      \* argument min_length
    gs_calls,           \* the chunks handed to self.summarizer, in order
    gs_fallback,        \* whether the except branch (extract_key_sentences) ran
    gs_summary,         \* the returned text
    gs_pc,              \* "call" | "returned" | "raised"
    \* ---- PharmaNewsAgent.process_articles
    pa_articles,        \* argument articles
    pa_i,               \* position of the for loop over articles
    pa_processed,       \* the local list processed_articles
    pa_kept,            \* for each processed article, its position in articles
    pa_calls,           \* the positions for which generate_summary was called
    pa_errors,          \* the positions whose processing raised (logged)
    pa_pc,              \* "loop" | "returned" | "raised"
    \* ---- PharmaNewsAgent.run (continuous mode)
    lp_interval,        \* interval_hours * 3600, in seconds
    lp_post,            \* argument post_to_social
    lp_stages,          \* the stages of the current run that have finished
    lp_failed,          \* whether the current run raised
    lp_last_failed,     \* whether the run before the current one raised
    lp_elapsed,         \* the local elapsed
    lp_sleep_seconds,   \* the local sleep_seconds
    lp_interrupt,       \* where the interrupt arrived and the stages done then
    lp_pc,              \* "start" | a stage | "ran" | "sleep" | "stopped" | "terminated"
    \* ---- utils.save_posts_to_csv (it writes into files)
    cs_posts,           \* argument posts_data
    cs_filename,        \* argument filename (None: a timestamped name)
    cs_filepath,        \* the returned path
    cs_pc,              \* "call" | "saved"
    \* ---- PostGenerator._generate_hashtags
    hg_num,             \* argument num_hashtags
    hg_short,           \* argument short
    hg_string,          \* the returned hashtag_string
    hg_pc,              \* "call" | "returned" | "raised"
    \* ---- PharmaNewsAgent.run_once, called run after run
    now,                \* the wall clock, in ticks
    ag_run,             \* the number of the current run
    ag_post,            \* argument post_to_social
    ag_articles,        \* the local articles
    ag_processed,       \* the local processed_articles
    ag_posts_data,      \* the local posts_data
    ag_posting_results, \* the local posting_results
    ag_trace,           \* the stages of the current run that have finished
    ag_writers,         \* for each path written so far, the runs that wrote it
    ag_pc,              \* "ready" | "fetch" | "process" | "processing" | "generate"
                        \* | "post" | "ran" | "raised"
    \* ContentProcessor._split_into_chunks
    ch_text,            \* the argument text
    ch_max_chunk_length, \* the argument max_chunk_length
    ch_chunks,          \* the returned list of chunks
    ch_pc,              \* "idle" | "call" | "returned"
    \* utils.retry_with_backoff
    rt_max_retries,     \* the argument max_retries
    rt_initial_delay,   \* the argument initial_delay
    rt_backoff_factor,  \* the argument backoff_factor
    rt_retries,         \* the local retries
    rt_delay,           \* the local delay
    rt_calls,           \* what each call of func did, in order
    rt_sleeps,          \* the time.sleep calls, in order
    rt_outcome,         \* what retry_with_backoff returned or raised
    rt_pc               \* "idle" | "loop" | "returned" | "raised"

twVars == <<title, link, post, twitter_post, tw_pc>>
exVars == <<sentences, num_sentences, ranked_indices, key_sentences, ex_pc>>
spVars == <<credentials, self_platforms, posts, requested, platforms, sp_i,
            results, stub_calls, stub_raised, sp_pc>>
nfVars == <<rss_feeds, max_articles, save, articles_per_feed, nf_feed, nf_entry,
            feed, feed_start, all_articles, fetch_log, files, nf_pc>>
gsVars == <<gs_text, gs_max_length, gs_min_length, gs_calls, gs_fallback,
            gs_summary, gs_pc>>
paVars == <<pa_articles, pa_i, pa_processed, pa_kept, pa_calls, pa_errors, pa_pc>>
lpVars == <<lp_interval, lp_post, lp_stages, lp_failed, lp_last_failed, lp_elapsed,
            lp_sleep_seconds, lp_interrupt, lp_pc>>
csVars == <<cs_posts, cs_filename, cs_filepath, cs_pc>>
hgVars == <<hg_num, hg_short, hg_string, hg_pc>>
agVars == <<now, ag_run, ag_post, ag_articles, ag_processed, ag_posts_data,
            ag_posting_results, ag_trace, ag_writers, ag_pc>>
chVars == <<ch_text, ch_max_chunk_length, ch_chunks, ch_pc>>
\* The components of the first four sections, the ones after them, and the
\* helpers of the last sections.
oldVars == <<twVars, exVars, spVars, nfVars>>
rtVars == <<rt_max_retries, rt_initial_delay, rt_backoff_factor, rt_retries,
            rt_delay, rt_calls, rt_sleeps, rt_outcome, rt_pc>>
lastVars == <<chVars, rtVars>>
restVars == <<gsVars, paVars, lpVars, csVars, hgVars, agVars, lastVars>>
gsRest == <<oldVars, paVars, lpVars, csVars, hgVars, agVars,
           lastVars>>
paRest == <<oldVars, gsVars, lpVars, csVars, hgVars, agVars,
           lastVars>>
lpRest == <<oldVars, gsVars, paVars, csVars, hgVars, agVars,
           lastVars>>
hgRest == <<oldVars, gsVars, paVars, lpVars, csVars, agVars,
           lastVars>>
\* The data directory is shared: files is left out here.
nfButFiles == <<rss_feeds, max_articles, save, articles_per_feed, nf_feed, nf_entry,
                feed, feed_start, all_articles, fetch_log, nf_pc>>
csRest == <<twVars, exVars, spVars, nfButFiles, gsVars, paVars, lpVars, hgVars, agVars,
           lastVars>>
\* The agent run writes into files and drives process_articles.
agRest == <<twVars, exVars, spVars, nfButFiles, gsVars, lpVars, csVars, hgVars,
           lastVars>>
chRest == <<oldVars, gsVars, paVars, lpVars, csVars, hgVars, agVars, rtVars>>
rtRest == <<oldVars, gsVars, paVars, lpVars, csVars, hgVars, agVars, chVars>>
vars == <<oldVars, restVars>>

\* The value standing for "not set" / Python's None.
None == "None"

(***************************************************************************)
(* Python helpers                                                          *)
(***************************************************************************)

\* s[:k] of a Python str or list: a negative k counts from the end.
PyPrefix(s, k) ==
    LET n == Len(s)
        stop == IF k < 0 THEN (IF n + k < 0 THEN 0 ELSE n + k)
                ELSE (IF k > n THEN n ELSE k)
    IN  SubSeq(s, 1, stop)

\* s[k:] of a Python str or list: a negative k counts from the end.
PySuffix(s, k) ==
    LET n == Len(s)
        start == IF k < 0 THEN (IF n + k < 0 THEN 0 ELSE n + k)
                 ELSE (IF k > n THEN n ELSE k)
    IN  SubSeq(s, start + 1, n)

\* The text of n copies of the character c.
RECURSIVE Chars(_, _)
Chars(n, c) ==
    IF n = 0 THEN ""
    ELSE LET half == Chars(n \div 2, c)
         IN  half \o half \o (IF n % 2 = 1 THEN c ELSE "")

\* sep.join(parts) for a list of str.
RECURSIVE Join(_, _)
Join(sep, parts) ==
    IF Len(parts) = 0 THEN ""
    ELSE IF Len(parts) = 1 THEN parts[1]
    ELSE parts[1] \o sep \o Join(sep, Tail(parts))

Min(a, b) == IF a < b THEN a ELSE b
Max(a, b) == IF a > b THEN a ELSE b
Range(s) == {s[i] : i \in DOMAIN s}

\* lp_interrupt while no interrupt has arrived.
NoInterrupt == [at |-> "none", stages |-> <<>>]

TwIdle == title = None /\ link = None /\ post = None /\ twitter_post = None
          /\ tw_pc = "idle"
ExIdle == sentences = <<>> /\ num_sentences = 0 /\ ranked_indices = <<>>
          /\ key_sentences = <<>>
          /\ ex_pc = "idle"
SpIdle == credentials = {} /\ self_platforms = <<>> /\ posts = <<>>
          /\ requested = <<>> /\ platforms = <<>> /\ sp_i = 0 /\ results = <<>>
          /\ stub_calls = <<>> /\ stub_raised = <<>> /\ sp_pc = "idle"
NfIdle == rss_feeds = <<>> /\ max_articles = 0 /\ save = FALSE
          /\ articles_per_feed = 0 /\ nf_feed = 0 /\ nf_entry = 0 /\ feed = None
          /\ feed_start = 0 /\ all_articles = <<>> /\ fetch_log = {} /\ files = <<>>
          /\ nf_pc = "idle"
GsIdle == gs_text = None /\ gs_max_length = 0 /\ gs_min_length = 0
          /\ gs_calls = <<>> /\ gs_fallback = FALSE /\ gs_summary = None
          /\ gs_pc = "idle"
OldIdle == TwIdle /\ ExIdle /\ SpIdle /\ NfIdle
PaIdle == pa_articles = <<>> /\ pa_i = 0 /\ pa_processed = <<>> /\ pa_kept = <<>>
          /\ pa_calls = <<>> /\ pa_errors = {} /\ pa_pc = "idle"
LpIdle == lp_interval = 0 /\ lp_post = FALSE /\ lp_stages = <<>>
          /\ lp_failed = FALSE /\ lp_last_failed = FALSE /\ lp_elapsed = 0
          /\ lp_sleep_seconds = 0 /\ lp_interrupt = NoInterrupt /\ lp_pc = "idle"
CsIdle == cs_posts = <<>> /\ cs_filename = None /\ cs_filepath = None
          /\ cs_pc = "idle"
HgIdle == hg_num = 0 /\ hg_short = FALSE /\ hg_string = None /\ hg_pc = "idle"
\* posting_results = None
PyNone == [py |-> "None"]

AgIdle == now = 0 /\ ag_run = 0 /\ ag_post = FALSE /\ ag_articles = <<>>
          /\ ag_processed = <<>> /\ ag_posts_data = <<>>
          /\ ag_posting_results = PyNone /\ ag_trace = <<>> /\ ag_writers = <<>>
          /\ ag_pc = "idle"
ChIdle == ch_text = None /\ ch_max_chunk_length = 0 /\ ch_chunks = <<>>
          /\ ch_pc = "idle"
\* Nothing returned or raised yet.
NoOutcome == [kind |-> "none", value |-> None]

RtIdle == rt_max_retries = 0 /\ rt_initial_delay = 0 /\ rt_backoff_factor = 0
          /\ rt_retries = 0 /\ rt_delay = 0 /\ rt_calls = <<>> /\ rt_sleeps = <<>>
          /\ rt_outcome = NoOutcome /\ rt_pc = "idle"
LastIdle == ChIdle /\ RtIdle
RestIdle == GsIdle /\ PaIdle /\ LpIdle /\ CsIdle /\ HgIdle /\ AgIdle /\ LastIdle
GsRestIdle == OldIdle /\ PaIdle /\ LpIdle /\ CsIdle /\ HgIdle /\ AgIdle
              /\ LastIdle
PaRestIdle == OldIdle /\ GsIdle /\ LpIdle /\ CsIdle /\ HgIdle /\ AgIdle
              /\ LastIdle
LpRestIdle == OldIdle /\ GsIdle /\ PaIdle /\ CsIdle /\ HgIdle /\ AgIdle
              /\ LastIdle
CsRestIdle == OldIdle /\ GsIdle /\ PaIdle /\ LpIdle /\ HgIdle /\ AgIdle
              /\ LastIdle
HgRestIdle == OldIdle /\ GsIdle /\ PaIdle /\ LpIdle /\ CsIdle /\ AgIdle
              /\ LastIdle
AgRestIdle == OldIdle /\ GsIdle /\ PaIdle /\ LpIdle /\ CsIdle /\ HgIdle
              /\ LastIdle
ChRestIdle == OldIdle /\ GsIdle /\ PaIdle /\ LpIdle /\ CsIdle /\ HgIdle /\ AgIdle
              /\ RtIdle
RtRestIdle == OldIdle /\ GsIdle /\ PaIdle /\ LpIdle /\ CsIdle /\ HgIdle /\ AgIdle
              /\ ChIdle

(***************************************************************************)
(* PostGenerator: the Twitter text block                                   *)
(***************************************************************************)

\* Lengths of the titles, links and cleaned generated texts that are tried.
TitleLens == {0, 60, 100, 140}
LinkLens == {0, 23, 80, 161, 162, 276, 277, 300}
PostLens == {0, 40, 150, 215, 216, 217, 256, 257, 300, 400}

common_hashtags == <<"Pharma", "Pharmaceutical", "Healthcare", "Medicine", "BioTech",
                     "DrugDevelopment", "ClinicalTrials", "MedicalResearch",
                     "HealthTech", "LifeSciences", "PharmaIndustry">>
short_hashtags == <<"Pharma", "Health", "Med", "Biotech", "Science", "Research">>

\* A choice with replacement: the same position may come twice.
SamplesWithReplacement(population, k) == [1..k -> 1..Len(population)]

\* random.sample(population, k): every ordered choice of k distinct positions.
Samples(population, k) ==
    {s \in [1..k -> 1..Len(population)] :
        \A a, b \in 1..k : a # b => s[a] # s[b]}

\* The strings _generate_hashtags can return.
HashtagStrings(num_hashtags, short) ==
    LET tags == IF short THEN short_hashtags ELSE common_hashtags
        k == Min(num_hashtags, Len(tags))
    IN  {Join(" ", [i \in 1..k |-> "#" \o tags[s[i]]]) : s \in Samples(tags, k)}

\* "Make sure Twitter post is under 280 characters including the link".
TruncateForTwitter(p, l) ==
    IF Len(p) + Len(l) + 1 > 280
    THEN PyPrefix(p, 280 - Len(l) - 4) \o "..."
    ELSE p

\* Whether hashtags are added ("Leave room for hashtags").
RoomForHashtags(p, l) == Len(p) + Len(l) + 1 < 240

\* f"{post} {hashtags} {link}"
TwitterBlock(p, hashtags, l) == p \o " " \o hashtags \o " " \o l

\* f"New in pharma: {title[:100]}... {link}"
TwitterFallback(t, l) == "New in pharma: " \o PyPrefix(t, 100) \o "... " \o l

TwInit ==
    /\ title \in {Chars(n, "t") : n \in TitleLens}
    /\ link \in {Chars(n, "l") : n \in LinkLens}
    /\ post = None
    /\ twitter_post = None
    /\ tw_pc = "call"
    /\ ExIdle /\ SpIdle /\ NfIdle /\ RestIdle

\* The text generator answers; the cleaned text is p.
GenerateTwitterPost ==
    /\ tw_pc = "call"
    /\ \E p \in {Chars(n, "p") : n \in PostLens} :
        LET cut == TruncateForTwitter(p, link)
        IN  /\ post' = p
            /\ \E hashtags \in (IF RoomForHashtags(cut, link)
                                THEN HashtagStrings(2, TRUE) ELSE {""}) :
                  twitter_post' = TwitterBlock(cut, hashtags, link)
    /\ tw_pc' = "generated"
    /\ UNCHANGED <<title, link, exVars, spVars, nfVars, restVars>>

\* The text generator (or the cleanup) raises: the except branch.
GenerateTwitterPostFails ==
    /\ tw_pc = "call"
    /\ twitter_post' = TwitterFallback(title, link)
    /\ tw_pc' = "fallback"
    /\ UNCHANGED <<title, link, post, exVars, spVars, nfVars, restVars>>

TwNext == GenerateTwitterPost \/ GenerateTwitterPostFails

SpecTwitter == TwInit /\ [][TwNext]_vars

\* C1: the twitter text block (generated or fallback) has at most 280
\* characters, for every generated text, title and link.
C1_TwitterAtMost280 ==
    tw_pc \in {"generated", "fallback"} => Len(twitter_post) <= 280

(***************************************************************************)
(* ContentProcessor.extract_key_sentences                                  *)
(***************************************************************************)

\* The longest text tried, in sentences, and the largest requested count.
MaxSentences == 4
MaxNumSentences == 4

\* self.stop_words, as far as the words of the pool go.
stop_words == {"the", "is"}

\* str.lower() on the words of the pool.
Lower(w) == IF w = "The" THEN "the" ELSE IF w = "Drug" THEN "drug" ELSE w

\* The sentences texts are made of, each as sentence.split().  Their word
\* vectors have integer Euclidean norms (1, 2 or 3), so every cosine
\* similarity is a multiple of 1/36 and is computed exactly.
SentencePool ==
    { <<"Drug">>,
      <<"The", "trial">>,
      <<"the", "is">>,
      <<"drug", "trial", "fda", "dose">>,
      <<"the", "drug", "trial", "trial", "fda", "fda">> }

\* Scores are kept in units of 1/ScoreScale.
ScoreScale == 6 * 6

\* [word.lower() for word in sent.split() if word.lower() not in self.stop_words]
RECURSIVE MeaningfulWords(_)
MeaningfulWords(sent) ==
    IF sent = <<>> THEN <<>>
    ELSE (IF Lower(Head(sent)) \in stop_words THEN <<>> ELSE <<Lower(Head(sent))>>)
         \o MeaningfulWords(Tail(sent))

\* The entry of the word vector of `words` for the word w.
WordCount(words, w) == Cardinality({i \in DOMAIN words : words[i] = w})

RECURSIVE SumOver(_, _)
SumOver(S, f) ==
    IF S = {} THEN 0
    ELSE LET x == CHOOSE y \in S : TRUE IN f[x] + SumOver(S \ {x}, f)

\* numpy.dot of the two word vectors over all_words.
VectorDot(words1, words2) ==
    LET all_words == Range(words1) \cup Range(words2)
    IN  SumOver(all_words,
                [w \in all_words |-> WordCount(words1, w) * WordCount(words2, w)])

\* sqrt(numpy.dot(v, v)); exact for the sentences of the pool.
VectorNorm(words) ==
    LET sq == VectorDot(words, words) IN CHOOSE r \in 0..sq : r * r = sq

\* _sentence_similarity: 1 - cosine_distance(vector1, vector2), times ScoreScale.
SentenceSimilarity(sent1, sent2) ==
    LET words1 == MeaningfulWords(sent1)
        words2 == MeaningfulWords(sent2)
    IN  IF words1 = <<>> \/ words2 = <<>> THEN 0
        ELSE (ScoreScale * VectorDot(words1, words2))
                 \div (VectorNorm(words1) * VectorNorm(words2))

\* The array holding f[1], ..., f[n], each element computed once.
RECURSIVE Array(_, _)
Array(f, n) == IF n = 0 THEN <<>> ELSE Append(Array(f, n - 1), f[n])

\* sentence_similarity_matrix[i][j]; the diagonal stays 0.
SimilarityMatrix(sents) ==
    Array([i \in DOMAIN sents |->
              Array([j \in DOMAIN sents |->
                        IF i # j THEN SentenceSimilarity(sents[i], sents[j]) ELSE 0],
                    Len(sents))],
          Len(sents))

\* sentence_scores: sum(row) for each row of the matrix.
SentenceScores(sents) ==
    LET m == SimilarityMatrix(sents)
    IN  Array([i \in DOMAIN sents |-> SumOver(DOMAIN sents, m[i])], Len(sents))

\* np.argsort(scores): the orders of the indices by ascending score.  The
\* default sort is not stable, so equal scores may come in either order.
RECURSIVE ArgSorts(_, _)
ArgSorts(S, scores) ==
    IF S = {} THEN {<<>>}
    ELSE UNION { {<<i>> \o rest : rest \in ArgSorts(S \ {i}, scores)} :
                 i \in {j \in S : \A m \in S : scores[j] <= scores[m]} }

\* sorted(ranked_indices)
UnsortedIndices(idx) == idx

RECURSIVE SortedIndices(_)
SortedIndices(idx) ==
    IF idx = <<>> THEN <<>>
    ELSE LET lo == CHOOSE i \in DOMAIN idx : \A j \in DOMAIN idx : idx[i] <= idx[j]
         IN  <<idx[lo]>> \o
             SortedIndices([k \in 1..(Len(idx) - 1) |->
                               IF k < lo THEN idx[k] ELSE idx[k + 1]])

\* np.argsort(sentence_scores)[-num_sentences:] for one argsort order.
TopIndices(order, n) == PySuffix(order, -n)

RECURSIVE SeqsUpTo(_, _)
SeqsUpTo(S, n) ==
    IF n = 0 THEN {<<>>}
    ELSE LET shorter == SeqsUpTo(S, n - 1)
         IN  shorter \cup {Append(s, x) : s \in shorter, x \in S}

ExInit ==
    /\ sentences \in SeqsUpTo(SentencePool, MaxSentences)
    /\ num_sentences \in -1..MaxNumSentences
    /\ ranked_indices = <<>>
    /\ key_sentences = <<>>
    /\ ex_pc = "call"
    /\ TwIdle /\ SpIdle /\ NfIdle /\ RestIdle

\* "If there are fewer sentences than requested, return all".
ExtractReturnsAll ==
    /\ ex_pc = "call"
    /\ Len(sentences) <= num_sentences
    /\ key_sentences' = sentences
    /\ ex_pc' = "all"
    /\ UNCHANGED <<sentences, num_sentences, ranked_indices, twVars, spVars, nfVars, restVars>>

\* The scoring branch: matrix, row sums, argsort, slice, sorted, join.
ExtractRanked ==
    /\ ex_pc = "call"
    /\ Len(sentences) > num_sentences
    /\ \E order \in ArgSorts(DOMAIN sentences, SentenceScores(sentences)) :
        LET ranked == SortedIndices(TopIndices(order, num_sentences))
        IN  /\ ranked_indices' = ranked
            /\ key_sentences' = [i \in DOMAIN ranked |-> sentences[ranked[i]]]
    /\ ex_pc' = "ranked"
    /\ UNCHANGED <<sentences, num_sentences, twVars, spVars, nfVars, restVars>>

ExNext == ExtractReturnsAll \/ ExtractRanked

SpecExtract == ExInit /\ [][ExNext]_vars

ExDone == ex_pc \in {"all", "ranked"}

\* Whether r[i..] can be matched, in order, within s[j..].
RECURSIVE MatchesFrom(_, _, _, _)
MatchesFrom(r, i, s, j) ==
    IF i > Len(r) THEN TRUE
    ELSE IF j > Len(s) THEN FALSE
    ELSE IF r[i] = s[j] THEN MatchesFrom(r, i + 1, s, j + 1)
    ELSE MatchesFrom(r, i, s, j + 1)

\* Whether r is an order-preserving subsequence of s.
IsSubsequence(r, s) == MatchesFrom(r, 1, s, 1)

\* C2: the returned sentences are an order-preserving subsequence of the
\* source sentences, for every text and every requested count.
C2_OriginalOrder == ExDone => IsSubsequence(key_sentences, sentences)

\* C2 witness: a ranked selection whose document order differs from its
\* score order (the first returned sentence scores higher than the last).
C2_Witness ==
    /\ ex_pc = "ranked"
    /\ Len(ranked_indices) >= 2
    /\ Len(ranked_indices) < Len(sentences)
    /\ SentenceScores(sentences)[ranked_indices[1]]
         > SentenceScores(sentences)[ranked_indices[Len(ranked_indices)]]

\* C3: for n >= 0, all k sentences come back unchanged when k <= n, and
\* otherwise exactly n sentences, none of the omitted ones scoring strictly
\* higher than a returned one.
C3_TopNByScore ==
    (ExDone /\ num_sentences >= 0) =>
        IF Len(sentences) <= num_sentences
        THEN key_sentences = sentences
        ELSE /\ Len(key_sentences) = num_sentences
             /\ Len(ranked_indices) = num_sentences
             /\ \A i \in DOMAIN sentences \ Range(ranked_indices) :
                  \A j \in Range(ranked_indices) :
                     SentenceScores(sentences)[i] <= SentenceScores(sentences)[j]

\* The same statement for n >= 1 (not the claim; the slice [-0:] is the
\* only place where the code departs from it).
TopNByScoreFromOne ==
    (ExDone /\ num_sentences >= 1) =>
        IF Len(sentences) <= num_sentences
        THEN key_sentences = sentences
        ELSE /\ Len(key_sentences) = num_sentences
             /\ Range(ranked_indices) \subseteq DOMAIN sentences
             /\ Cardinality(Range(ranked_indices)) = num_sentences
             /\ \A i \in DOMAIN sentences \ Range(ranked_indices) :
                  \A j \in Range(ranked_indices) :
                     SentenceScores(sentences)[i] <= SentenceScores(sentences)[j]

(***************************************************************************)
(* SocialPoster                                                            *)
(***************************************************************************)

\* The longest list of requested platforms tried.
MaxRequested == 2

\* The platforms __init__ looks for, and the names a caller may pass.
KnownPlatforms == {"linkedin", "facebook", "twitter"}
PlatformNames == KnownPlatforms \cup {"mastodon"}

\* The values a posts dict may hold: a text, the empty text, or a value that
\* is no str (None here).
PostValues == {"Pharma news text", "", None}

\* A dict: key :> value for one entry, EmptyDict for {}.
EmptyDict == <<>>
DictSet(d, k, v) == (k :> v) @@ d
Dicts(keys, values) == UNION {[ks -> values] : ks \in SUBSET keys}

\* PharmaNewsAgent.post_to_social: the posts dict built from one post record.
AgentPosts(post_data) ==
    [pl \in KnownPlatforms |->
        LET key == pl \o "_post"
        IN  IF key \in DOMAIN post_data THEN post_data[key] ELSE ""]

\* The post records tried: any of the three text columns may be missing.
PostRecords == Dicts({"linkedin_post", "facebook_post", "twitter_post"},
                     {"Pharma news text"})

\* The posts arguments tried: any dict over the known platforms, and the
\* dicts the agent builds.
PostsArguments ==
    Dicts(KnownPlatforms, PostValues) \cup {AgentPosts(pd) : pd \in PostRecords}

\* A copy-and-paste slip in __init__: twitter is looked up under 'linkedin'.
ConfiguredPlatformsSlip(creds) ==
    (IF "linkedin" \in creds THEN <<"linkedin">> ELSE <<>>)
    \o (IF "facebook" \in creds THEN <<"facebook">> ELSE <<>>)
    \o (IF "linkedin" \in creds THEN <<"twitter">> ELSE <<>>)

\* __init__: self.platforms from the keys of the credentials.
ConfiguredPlatforms(creds) ==
    (IF "linkedin" \in creds THEN <<"linkedin">> ELSE <<>>)
    \o (IF "facebook" \in creds THEN <<"facebook">> ELSE <<>>)
    \o (IF "twitter" \in creds THEN <<"twitter">> ELSE <<>>)

\* _post_to_linkedin / _post_to_facebook / _post_to_twitter: text[:100] is
\* logged, which raises TypeError when text is no str; then the placeholder
\* status is returned.
PlatformStub(pl, text) ==
    IF text = None
    THEN [raises |-> TRUE, value |-> "'NoneType' object is not subscriptable"]
    ELSE [raises |-> FALSE,
          value |-> [status |-> "simulated",
                     message |-> (CASE pl = "linkedin" -> "LinkedIn"
                                    [] pl = "facebook" -> "Facebook"
                                    [] pl = "twitter" -> "Twitter")
                                 \o " posting simulation successful"]]

\* The if / elif / else of the try block: the stub of the platform, or the
\* error status for any other name.
Dispatch(pl, ps) ==
    IF pl \in {"linkedin", "facebook", "twitter"}
    THEN PlatformStub(pl, ps[pl]) @@ [called |-> TRUE]
    ELSE [raises |-> FALSE, called |-> FALSE,
          value |-> [status |-> "error", message |-> "Unknown platform: " \o pl]]

\* A handler that lets the exception out of post_to_platforms.
StubExceptionPropagates(e) == [pc |-> "raised", value |-> None]

\* except Exception as e: results[platform] = {'status': 'error', 'message': str(e)}
StubExceptionHandler(e) ==
    [pc |-> "loop", value |-> [status |-> "error", message |-> e]]

SpInit ==
    /\ credentials = {} /\ self_platforms = <<>> /\ posts = EmptyDict
    /\ requested = <<>> /\ platforms = <<>> /\ sp_i = 0 /\ results = EmptyDict
    /\ stub_calls = <<>> /\ stub_raised = <<>>
    /\ sp_pc = "new"
    /\ TwIdle /\ ExIdle /\ NfIdle /\ RestIdle

\* SocialPoster(credentials)
SocialPosterInit ==
    /\ sp_pc = "new"
    /\ \E creds \in SUBSET PlatformNames :
        /\ credentials' = creds
        /\ self_platforms' = ConfiguredPlatforms(creds)
    /\ sp_pc' = "ready"
    /\ UNCHANGED <<posts, requested, platforms, sp_i, results, stub_calls,
                   stub_raised, twVars, exVars, nfVars, restVars>>

\* post_to_platforms(posts, platforms), up to the loop.
PostToPlatformsCall ==
    /\ sp_pc = "ready"
    /\ \E ps \in PostsArguments, req \in SeqsUpTo(PlatformNames, MaxRequested) :
        /\ posts' = ps
        /\ requested' = req
        /\ platforms' = IF req = <<>> THEN self_platforms ELSE req
    /\ results' = EmptyDict
    /\ sp_i' = 1
    /\ sp_pc' = "loop"
    /\ UNCHANGED <<credentials, self_platforms, stub_calls, stub_raised,
                   twVars, exVars, nfVars, restVars>>

\* One iteration: the platform is not in self.platforms.
SkipNotConfigured ==
    /\ sp_pc = "loop" /\ sp_i <= Len(platforms)
    /\ platforms[sp_i] \notin Range(self_platforms)
    /\ results' = DictSet(results, platforms[sp_i],
                          [status |-> "skipped", message |-> "Platform not configured"])
    /\ sp_i' = sp_i + 1
    /\ UNCHANGED <<credentials, self_platforms, posts, requested, platforms,
                   stub_calls, stub_raised, sp_pc, twVars, exVars, nfVars, restVars>>

\* One iteration: the platform is not a key of posts.
SkipNoContent ==
    /\ sp_pc = "loop" /\ sp_i <= Len(platforms)
    /\ platforms[sp_i] \in Range(self_platforms)
    /\ platforms[sp_i] \notin DOMAIN posts
    /\ results' = DictSet(results, platforms[sp_i],
                          [status |-> "skipped", message |-> "No content available"])
    /\ sp_i' = sp_i + 1
    /\ UNCHANGED <<credentials, self_platforms, posts, requested, platforms,
                   stub_calls, stub_raised, sp_pc, twVars, exVars, nfVars, restVars>>

\* One iteration: the try block (dispatch on the name, then the stub) and
\* its except clause.
PostToStub ==
    /\ sp_pc = "loop" /\ sp_i <= Len(platforms)
    /\ platforms[sp_i] \in Range(self_platforms)
    /\ platforms[sp_i] \in DOMAIN posts
    /\ LET pl == platforms[sp_i]
           out == Dispatch(pl, posts)
           handled == StubExceptionHandler(out.value)
       IN  /\ stub_calls' = IF out.called THEN Append(stub_calls, pl) ELSE stub_calls
           /\ IF out.raises
              THEN /\ stub_raised' = Append(stub_raised, <<pl, out.value>>)
                   /\ sp_pc' = handled.pc
                   /\ results' = IF handled.pc = "loop"
                                 THEN DictSet(results, pl, handled.value)
                                 ELSE results
              ELSE /\ stub_raised' = stub_raised
                   /\ sp_pc' = sp_pc
                   /\ results' = DictSet(results, pl, out.value)
    /\ sp_i' = sp_i + 1
    /\ UNCHANGED <<credentials, self_platforms, posts, requested, platforms,
                   twVars, exVars, nfVars, restVars>>

\* return results
PostToPlatformsReturn ==
    /\ sp_pc = "loop" /\ sp_i > Len(platforms)
    /\ sp_pc' = "returned"
    /\ UNCHANGED <<credentials, self_platforms, posts, requested, platforms, sp_i,
                   results, stub_calls, stub_raised, twVars, exVars, nfVars, restVars>>

SpNext ==
    \/ SocialPosterInit
    \/ PostToPlatformsCall
    \/ SkipNotConfigured
    \/ SkipNoContent
    \/ PostToStub
    \/ PostToPlatformsReturn

SpecPoster == SpInit /\ [][SpNext]_vars

SpReturned == sp_pc = "returned"

\* The platforms configured at construction, from the credentials.
ConfiguredSet == credentials \cap KnownPlatforms

\* Whether the posts dict holds a text for the platform.
HasText(pl) == pl \in DOMAIN posts /\ posts[pl] # None /\ posts[pl] # ""

StatusOf(pl) == IF pl \in DOMAIN results THEN results[pl].status ELSE "missing"
MessageOf(pl) == IF pl \in DOMAIN results THEN results[pl].message ELSE "missing"

\* C4: a requested platform that is not configured is 'skipped' (not
\* configured) and its stub is not invoked; a requested, configured platform
\* with a text is 'simulated'.
C4_SkippedOrSimulated ==
    SpReturned =>
        \A pl \in Range(requested) :
            /\ pl \notin ConfiguredSet =>
                  /\ StatusOf(pl) = "skipped"
                  /\ MessageOf(pl) = "Platform not configured"
                  /\ pl \notin Range(stub_calls)
            /\ (pl \in ConfiguredSet /\ HasText(pl)) => StatusOf(pl) = "simulated"

\* C4 witness: only linkedin is configured, linkedin and twitter are requested.
C4_Witness ==
    /\ SpReturned
    /\ ConfiguredSet = {"linkedin"}
    /\ requested = <<"linkedin", "twitter">>
    /\ HasText("linkedin") /\ HasText("twitter")
    /\ StatusOf("twitter") = "skipped"
    /\ StatusOf("linkedin") = "simulated"
    /\ stub_calls = <<"linkedin">>

\* C5: every requested name that is not linkedin, facebook or twitter gets
\* the status 'error'.
C5_UnknownIsError ==
    SpReturned =>
        \A pl \in Range(platforms) :
            pl \notin {"linkedin", "facebook", "twitter"} => StatusOf(pl) = "error"

\* C6: a requested, configured platform without text (no key, or the empty
\* string) is 'skipped' with the no-content reason, and its stub is not invoked.
C6_NoTextIsSkipped ==
    SpReturned =>
        \A pl \in Range(platforms) \cap ConfiguredSet :
            (pl \notin DOMAIN posts \/ posts[pl] = "") =>
                /\ StatusOf(pl) = "skipped"
                /\ MessageOf(pl) = "No content available"
                /\ pl \notin Range(stub_calls)

\* The same statement for a missing key alone (not the claim).
NoKeyIsSkipped ==
    SpReturned =>
        \A pl \in Range(platforms) \cap ConfiguredSet :
            pl \notin DOMAIN posts =>
                /\ StatusOf(pl) = "skipped"
                /\ MessageOf(pl) = "No content available"
                /\ pl \notin Range(stub_calls)

\* C7: an exception of a stub never leaves post_to_platforms; the platform
\* gets status 'error' with the exception's message, the loop goes on, and
\* the call returns an entry for each requested platform.
C7_StubErrorContained ==
    /\ sp_pc # "raised"
    /\ \A k \in DOMAIN stub_raised :
          /\ stub_raised[k][1] \in DOMAIN results
          /\ results[stub_raised[k][1]] =
                [status |-> "error", message |-> stub_raised[k][2]]
    /\ SpReturned => DOMAIN results = Range(platforms)

\* C7 witness: the first of two requested platforms raised, the second was
\* still posted, and the call returned.
C7_Witness ==
    /\ SpReturned
    /\ Len(platforms) = 2
    /\ Len(stub_raised) = 1
    /\ stub_raised[1][1] = platforms[1]
    /\ StatusOf(platforms[1]) = "error"
    /\ StatusOf(platforms[2]) = "simulated"

(***************************************************************************)
(* NewsFetcher                                                             *)
(***************************************************************************)

\* The longest configured feed list, the most entries a feed holds, the
\* largest max_articles, and the last second of the clock.
MaxFeeds == 2
MaxEntries == 3
MaxArticles == 4
MaxClock == 1

\* The built-in feed list of __init__.
default_feeds == <<"https://www.fiercepharma.com/rss/xml",
                   "https://www.biopharmadive.com/feeds/news/",
                   "https://www.pharmaceutical-technology.com/feed/",
                   "https://www.drugdiscoverytrends.com/feed/",
                   "https://www.pharmtech.com/feed">>

\* The feed URLs a caller configures.
ConfiguredUrls == {"https://a.example/rss", "https://b.example/rss"}

\* What the feed parser and the article site give for entry j of a feed.
FeedTitle(url) == "Feed at " \o url
EntryTitle(url, j) == "Entry " \o ToString(j) \o " of " \o url
EntryLink(url, j) == url \o "/" \o ToString(j)
EntrySummary(url, j) == "Summary of " \o EntryLink(url, j)
ArticleText(url, j) == "Full text of " \o EntryLink(url, j)
TopImage(url, j) == EntryLink(url, j) \o ".png"
NowString == "datetime.now()"

\* The cases of one entry: whether the feed gives 'published' and 'summary',
\* and how the download goes (the text, the text and a top image, or an
\* exception in download() / parse()).
EntryCases ==
    { [published |-> TRUE,  summary |-> TRUE,  download |-> "text_image"],
      [published |-> TRUE,  summary |-> TRUE,  download |-> "text"],
      [published |-> FALSE, summary |-> TRUE,  download |-> "error"],
      [published |-> TRUE,  summary |-> FALSE, download |-> "error"] }

\* self.rss_feeds = rss_feeds or [the five default feeds]
FeedsOrDefault(arg) == IF arg = <<>> THEN default_feeds ELSE arg

\* A quota without the floor of 1.
PerFeedQuotaNoFloor(maxa, nfeeds) == maxa \div nfeeds

\* articles_per_feed = max(1, max_articles // len(self.rss_feeds))
PerFeedQuota(maxa, nfeeds) == Max(1, maxa \div nfeeds)

\* A handler that drops the feed's text.
ContentOnDownloadErrorEmpty(url, j, c) == ""

\* except Exception: article['content'] = entry.get('summary', '')
ContentOnDownloadError(url, j, c) ==
    IF c.summary THEN EntrySummary(url, j) ELSE ""

\* The article dict of one entry, after the inner try / except.
BuildArticle(f, url, j, c) ==
    LET base == [title |-> EntryTitle(url, j),
                 link |-> EntryLink(url, j),
                 published |-> IF c.published THEN "published " \o EntryLink(url, j)
                               ELSE NowString,
                 source |-> f.title]
    IN  CASE c.download = "text" ->
               base @@ [content |-> ArticleText(url, j)]
          [] c.download = "text_image" ->
               base @@ [content |-> ArticleText(url, j), image_url |-> TopImage(url, j)]
          [] c.download = "error" ->
               base @@ [content |-> ContentOnDownloadError(url, j, c)]

\* _save_articles: articles_<timestamp>.json, written whole.
ArticlesFile(t) == "articles_" \o ToString(t) \o ".json"

NfInit ==
    /\ rss_feeds = <<>> /\ max_articles = 0 /\ save = FALSE
    /\ articles_per_feed = 0 /\ nf_feed = 0 /\ nf_entry = 0 /\ feed = None
    /\ feed_start = 0 /\ all_articles = <<>> /\ fetch_log = {} /\ files = EmptyDict
    /\ nf_pc = "new"
    /\ TwIdle /\ ExIdle /\ SpIdle /\ RestIdle

\* NewsFetcher(rss_feeds, data_dir)
NewsFetcherInit ==
    /\ nf_pc = "new"
    /\ \E arg \in SeqsUpTo(ConfiguredUrls, MaxFeeds) : rss_feeds' = FeedsOrDefault(arg)
    /\ nf_pc' = "ready"
    /\ UNCHANGED <<max_articles, save, articles_per_feed, nf_feed, nf_entry, feed,
                   feed_start, all_articles, fetch_log, files, twVars, exVars, spVars, restVars>>

\* fetch_articles(max_articles, save), up to the loop over the feeds.
FetchArticlesCall ==
    /\ nf_pc = "ready"
    /\ \E m \in 1..MaxArticles, sv \in BOOLEAN :
        /\ max_articles' = m
        /\ save' = sv
        /\ articles_per_feed' = PerFeedQuota(m, Len(rss_feeds))
    /\ all_articles' = <<>>
    /\ nf_feed' = 1
    /\ nf_pc' = "feeds"
    /\ UNCHANGED <<rss_feeds, nf_entry, feed, feed_start, fetch_log, files,
                   twVars, exVars, spVars, restVars>>

\* feedparser.parse(feed_url) gives a feed with n entries.
ParseFeed ==
    /\ nf_pc = "feeds" /\ nf_feed <= Len(rss_feeds)
    /\ \E n \in 0..MaxEntries :
        feed' = [title |-> FeedTitle(rss_feeds[nf_feed]), entries |-> n]
    /\ feed_start' = Len(all_articles)
    /\ nf_entry' = 1
    /\ nf_pc' = "entries"
    /\ UNCHANGED <<rss_feeds, max_articles, save, articles_per_feed, nf_feed,
                   all_articles, fetch_log, files, twVars, exVars, spVars, restVars>>

\* feedparser.parse raises: the outer except logs it, the next feed follows.
ParseFeedFails ==
    /\ nf_pc = "feeds" /\ nf_feed <= Len(rss_feeds)
    /\ fetch_log' = fetch_log \cup {[kind |-> "feed_error", feed |-> nf_feed]}
    /\ nf_feed' = nf_feed + 1
    /\ UNCHANGED <<rss_feeds, max_articles, save, articles_per_feed, nf_entry, feed,
                   feed_start, all_articles, files, nf_pc, twVars, exVars, spVars, restVars>>

\* One entry of feed.entries[:articles_per_feed]: the article dict, the
\* download in the inner try, the append.
FetchEntry ==
    /\ nf_pc = "entries"
    /\ nf_entry <= Min(feed.entries, articles_per_feed)
    /\ \E c \in EntryCases :
        /\ all_articles' = Append(all_articles,
                                  BuildArticle(feed, rss_feeds[nf_feed], nf_entry, c))
        /\ fetch_log' = IF c.download = "error"
                        THEN fetch_log \cup {[kind |-> "download_error",
                                              feed |-> nf_feed, entry |-> nf_entry,
                                              summary |-> c.summary,
                                              at |-> Len(all_articles) + 1]}
                        ELSE fetch_log
    /\ nf_entry' = nf_entry + 1
    /\ UNCHANGED <<rss_feeds, max_articles, save, articles_per_feed, nf_feed, feed,
                   feed_start, files, nf_pc, twVars, exVars, spVars, restVars>>

\* entry.title, entry.link or feed.feed.title is missing: the AttributeError
\* reaches the outer except, which logs it and drops the rest of the feed.
EntryRaises ==
    /\ nf_pc = "entries"
    /\ nf_entry <= Min(feed.entries, articles_per_feed)
    /\ fetch_log' = fetch_log \cup {[kind |-> "feed_error", feed |-> nf_feed]}
    /\ nf_feed' = nf_feed + 1
    /\ nf_pc' = "feeds"
    /\ UNCHANGED <<rss_feeds, max_articles, save, articles_per_feed, nf_entry, feed,
                   feed_start, all_articles, files, twVars, exVars, spVars, restVars>>

\* The entries of the feed are done: the next feed.
NextFeed ==
    /\ nf_pc = "entries"
    /\ nf_entry > Min(feed.entries, articles_per_feed)
    /\ nf_feed' = nf_feed + 1
    /\ nf_pc' = "feeds"
    /\ UNCHANGED <<rss_feeds, max_articles, save, articles_per_feed, nf_entry, feed,
                   feed_start, all_articles, fetch_log, files, twVars, exVars, spVars, restVars>>

\* After the loop: _save_articles if asked and there is any article, return.
FetchArticlesReturn ==
    /\ nf_pc = "feeds" /\ nf_feed > Len(rss_feeds)
    /\ IF save /\ all_articles # <<>>
       THEN \E t \in 0..MaxClock :
               files' = DictSet(files, ArticlesFile(t), all_articles)
       ELSE files' = files
    /\ nf_pc' = "returned"
    /\ UNCHANGED <<rss_feeds, max_articles, save, articles_per_feed, nf_feed,
                   nf_entry, feed, feed_start, all_articles, fetch_log,
                   twVars, exVars, spVars, restVars>>

NfNext ==
    \/ NewsFetcherInit
    \/ FetchArticlesCall
    \/ ParseFeed
    \/ ParseFeedFails
    \/ FetchEntry
    \/ EntryRaises
    \/ NextFeed
    \/ FetchArticlesReturn

SpecFetch == NfInit /\ [][NfNext]_vars

NfReturned == nf_pc = "returned"

\* C8: fetch_articles returns at most max_articles records in total.
C8_AtMostMaxArticles == NfReturned => Len(all_articles) <= max_articles

FeedErrors == {e \in fetch_log : e.kind = "feed_error"}
DownloadErrors == {e \in fetch_log : e.kind = "download_error"}

\* The loop over a feed's entries has just ended normally for feed i.
FeedFinished(i) ==
    /\ nf_pc \in {"feeds", "returned"}
    /\ nf_feed = i + 1
    /\ i >= 1
    /\ [kind |-> "feed_error", feed |-> i] \notin fetch_log

IsPrefix(a, b) == Len(a) <= Len(b) /\ \A k \in DOMAIN a : a[k] = b[k]

\* Whether the sources of arts[k..] follow the feed order from feed i on.
RECURSIVE SourcesInFeedOrder(_, _, _)
SourcesInFeedOrder(arts, k, i) ==
    IF k > Len(arts) THEN TRUE
    ELSE IF i > Len(rss_feeds) THEN FALSE
    ELSE IF arts[k].source = FeedTitle(rss_feeds[i])
         THEN SourcesInFeedOrder(arts, k + 1, i)
         ELSE SourcesInFeedOrder(arts, k, i + 1)

\* C9, the state part: with no feed error, a finished feed has given exactly
\* min(entries, max(1, max_articles // feeds)) records, its first entries in
\* order, each with the feed's title as 'source'; the returned list follows
\* the feed order.
C9_FinishedFeed ==
    FeedErrors = {} =>
        /\ \A i \in 1..Len(rss_feeds) :
              FeedFinished(i) =>
                 LET due == Min(feed.entries,
                                IF max_articles \div Len(rss_feeds) >= 1
                                THEN max_articles \div Len(rss_feeds) ELSE 1)
                 IN  /\ Len(all_articles) = feed_start + due
                     /\ \A k \in 1..due :
                           /\ feed_start + k \in DOMAIN all_articles
                           /\ all_articles[feed_start + k].source = FeedTitle(rss_feeds[i])
                           /\ all_articles[feed_start + k].title = EntryTitle(rss_feeds[i], k)
        /\ NfReturned => SourcesInFeedOrder(all_articles, 1, 1)

\* Inside fetch_articles the list only grows at its end.
AppendOnly == nf_pc \in {"feeds", "entries"} => IsPrefix(all_articles, all_articles')

\* C9: when every feed parses, each feed gives exactly min(entries,
\* max(1, max_articles // feeds)) records, in feed order, each with 'source'
\* equal to the feed's title; the records a feed has given stay in the list
\* as they are until fetch_articles returns.
C9_PerFeedQuota ==
    /\ []C9_FinishedFeed
    /\ [][AppendOnly]_vars

\* C9 witness: one feed with 3 entries and max_articles = 3 gave 3 records.
C9_Witness ==
    /\ NfReturned
    /\ FeedErrors = {}
    /\ Len(rss_feeds) = 1
    /\ feed.entries = 3
    /\ max_articles = 3
    /\ Len(all_articles) = 3
    /\ \A k \in 1..3 : all_articles[k].source = FeedTitle(rss_feeds[1])

\* C10: an entry whose download or parse failed is in the list with the
\* feed's summary (or '') as its body; the entries after it and the feeds
\* after it are still fetched, and fetch_articles returns.
C10_DownloadErrorFallsBack ==
    /\ \A e \in DownloadErrors :
          /\ e.at \in DOMAIN all_articles
          /\ all_articles[e.at].title = EntryTitle(rss_feeds[e.feed], e.entry)
          /\ all_articles[e.at].link = EntryLink(rss_feeds[e.feed], e.entry)
          /\ all_articles[e.at].content =
                (IF e.summary THEN EntrySummary(rss_feeds[e.feed], e.entry) ELSE "")
    /\ \A i \in 1..Len(rss_feeds) :
          FeedFinished(i) =>
             Len(all_articles) = feed_start + Min(feed.entries, articles_per_feed)
    /\ NfReturned => nf_feed = Len(rss_feeds) + 1

\* C10 witness: a download failed for the first entry of the first feed, with
\* a summary, and one failed without; a later entry and a later feed followed.
C10_Witness ==
    /\ NfReturned
    /\ Len(rss_feeds) = 2
    /\ Len(all_articles) = 4
    /\ \E e \in DownloadErrors :
          e.at = 1 /\ e.summary /\ all_articles[1].content # ""
    /\ \E e \in DownloadErrors : ~e.summary /\ all_articles[e.at].content = ""
    /\ all_articles[2].source = all_articles[1].source
    /\ all_articles[3].source # all_articles[1].source

(***************************************************************************)
(* ContentProcessor.generate_summary                                       *)
(***************************************************************************)

\* The longest text tried, in characters.
MaxTextLen == 5

\* The characters texts are made of, and the ones \s and str.split() take
\* for whitespace.
TextAlphabet == {"x", ".", " ", "\n"}
Whitespace == {" ", "\n", "\t", "\r"}

CharAt(s, i) == SubSeq(s, i, i)
IsSpace(s, i) == CharAt(s, i) \in Whitespace

\* The concatenation of parts[lo], ..., parts[hi].
RECURSIVE ConcatRange(_, _, _)
ConcatRange(parts, lo, hi) ==
    IF lo > hi THEN ""
    ELSE IF lo = hi THEN parts[lo]
    ELSE LET mid == (lo + hi) \div 2
         IN  ConcatRange(parts, lo, mid) \o ConcatRange(parts, mid + 1, hi)

\* re.sub(r'\s+', ' ', s): every maximal run of whitespace becomes one space.
CollapseWhitespace(s) ==
    ConcatRange([i \in 1..Len(s) |->
                    IF ~IsSpace(s, i) THEN CharAt(s, i)
                    ELSE IF i = 1 \/ ~IsSpace(s, i - 1) THEN " "
                    ELSE ""],
                1, Len(s))

\* str.strip(): leading and trailing whitespace removed.
Strip(s) ==
    LET inked == {i \in 1..Len(s) : ~IsSpace(s, i)}
    IN  IF inked = {} THEN ""
        ELSE SubSeq(s, CHOOSE i \in inked : \A j \in inked : i <= j,
                       CHOOSE i \in inked : \A j \in inked : i >= j)

\* Two lists of pieces of which the last of the first and the first of the
\* second are one piece, cut in two; sep goes between the two parts.
Glued(left, sep, right) ==
    SubSeq(left, 1, Len(left) - 1) \o <<left[Len(left)] \o sep \o right[1]>>
    \o Tail(right)

\* The words of s[lo..hi], a word that crosses the middle being put together
\* from its two parts.
RECURSIVE SplitRange(_, _, _)
SplitRange(s, lo, hi) ==
    IF lo > hi THEN <<>>
    ELSE IF lo = hi THEN (IF IsSpace(s, lo) THEN <<>> ELSE <<CharAt(s, lo)>>)
    ELSE LET mid == (lo + hi) \div 2
             left == SplitRange(s, lo, mid)
             right == SplitRange(s, mid + 1, hi)
         IN  IF IsSpace(s, mid) \/ IsSpace(s, mid + 1) THEN left \o right
             ELSE Glued(left, "", right)

\* str.split(): the maximal runs of non-whitespace, in order.
Split(s) == SplitRange(s, 1, Len(s))

\* "Clean the text": re.sub(r'\s+', ' ', text).strip()
CleanText(text) == Strip(CollapseWhitespace(text))

\* sent_tokenize(text): a sentence ends with a word that ends with a full
\* stop, a question mark or an exclamation mark.
EndsSentence(w) == CharAt(w, Len(w)) \in {".", "?", "!"}

\* The sentences made of words[lo..hi], a sentence that crosses the middle
\* being put together from its two parts.
RECURSIVE SentencesRange(_, _, _)
SentencesRange(words, lo, hi) ==
    IF lo > hi THEN <<>>
    ELSE IF lo = hi THEN <<words[lo]>>
    ELSE LET mid == (lo + hi) \div 2
             left == SentencesRange(words, lo, mid)
             right == SentencesRange(words, mid + 1, hi)
         IN  IF EndsSentence(words[mid]) THEN left \o right
             ELSE Glued(left, " ", right)

SentTokenize(text) == SentencesRange(Split(text), 1, Len(Split(text)))

\* The for loop of _split_into_chunks from sentence i on.
RECURSIVE ChunkLoop(_, _, _, _, _, _)
ChunkLoop(sents, i, chunks, current_chunk, current_length, max_chunk_length) ==
    IF i > Len(sents)
    THEN (IF current_chunk # <<>> THEN Append(chunks, Join(" ", current_chunk))
          ELSE chunks)
    ELSE LET words == Len(Split(sents[i]))
         IN  IF current_length + words <= max_chunk_length
             THEN ChunkLoop(sents, i + 1, chunks, Append(current_chunk, sents[i]),
                            current_length + words, max_chunk_length)
             ELSE ChunkLoop(sents, i + 1, Append(chunks, Join(" ", current_chunk)),
                            <<sents[i]>>, words, max_chunk_length)

\* _split_into_chunks(text, max_chunk_length)
SplitIntoChunks(text, max_chunk_length) ==
    ChunkLoop(SentTokenize(text), 1, <<>>, <<>>, 0, max_chunk_length)

\* The strings extract_key_sentences(text, n) can return.  (The word vectors
\* of the ranking branch are exact for the sentences of SentencePool; a text
\* of MaxTextLen characters has too few sentences to reach that branch.)
ExtractKeySentences(text, n) ==
    LET sents == SentTokenize(text)
    IN  IF Len(sents) <= n THEN {Join(" ", sents)}
        ELSE {Join(" ", [i \in 1..Len(TopIndices(order, n)) |->
                            sents[SortedIndices(TopIndices(order, n))[i]]]) :
                order \in ArgSorts(DOMAIN sents,
                                   SentenceScores([i \in DOMAIN sents |->
                                                      Split(sents[i])]))}

\* "If text is too short, return it as is", with the guard off by one.
IsTooShortSlip(text, min_length) == Len(Split(text)) < min_length - 1

\* "If text is too short, return it as is": the guard on the cleaned text.
IsTooShort(text, min_length) == Len(Split(text)) < min_length

\* "Ensure it's not too long": the summary cut to max_length words.
CutToMaxLength(final_summary, max_length) ==
    IF Len(Split(final_summary)) > max_length
    THEN Join(" ", PyPrefix(Split(final_summary), max_length))
    ELSE final_summary

\* The texts the summarizer answers with, and the arguments that are tried.
SummaryTexts == {"x.", "x x. x"}

\* Lines 67-83: what the try block returns for the cleaned text t when the
\* summarizer answers for every chunk.
Summarized(t, max_length) ==
    {CutToMaxLength(Join(" ", summaries), max_length) :
        summaries \in [DOMAIN SplitIntoChunks(t, 1024) -> SummaryTexts]}

\* What generate_summary(text, max_length, min_length) can return.
GenerateSummaryReturns(text, max_length, min_length) ==
    LET t == CleanText(text)
    IN  IF IsTooShort(t, min_length) THEN {t}
        ELSE Summarized(t, max_length)
             \cup (IF SplitIntoChunks(t, 1024) # <<>>
                   THEN ExtractKeySentences(t, 3) ELSE {})

\* Whether generate_summary can raise: only past the early return.
GenerateSummaryMayRaise(text, min_length) == ~IsTooShort(CleanText(text), min_length)
MaxLengths == {2, 150}
MinLengths == {0, 1, 2, 50}

RECURSIVE Strings(_, _)
Strings(alphabet, n) ==
    IF n = 0 THEN {""}
    ELSE LET shorter == Strings(alphabet, n - 1)
         IN  shorter \cup {s \o c : s \in shorter, c \in alphabet}

GsInit ==
    /\ gs_text \in Strings(TextAlphabet, MaxTextLen)
    /\ gs_max_length \in MaxLengths
    /\ gs_min_length \in MinLengths
    /\ gs_calls = <<>>
    /\ gs_fallback = FALSE
    /\ gs_summary = None
    /\ gs_pc = "call"
    /\ GsRestIdle

\* Lines 58-62: the cleaned text is short and is returned as it is.
GenerateSummaryShort ==
    /\ gs_pc = "call"
    /\ IsTooShort(CleanText(gs_text), gs_min_length)
    /\ gs_summary' = CleanText(gs_text)
    /\ gs_pc' = "returned"
    /\ UNCHANGED <<gs_text, gs_max_length, gs_min_length, gs_calls, gs_fallback,
                   gsRest>>

\* Lines 65-83: the summarizer answers for every chunk.
GenerateSummarySummarized ==
    /\ gs_pc = "call"
    /\ ~IsTooShort(CleanText(gs_text), gs_min_length)
    /\ gs_calls' = SplitIntoChunks(CleanText(gs_text), 1024)
    /\ gs_summary' \in Summarized(CleanText(gs_text), gs_max_length)
    /\ gs_pc' = "returned"
    /\ UNCHANGED <<gs_text, gs_max_length, gs_min_length, gs_fallback, gsRest>>

\* Lines 85-88: the summarizer raises for chunk k; the key sentences of the
\* cleaned text are returned.
GenerateSummaryFallback ==
    /\ gs_pc = "call"
    /\ ~IsTooShort(CleanText(gs_text), gs_min_length)
    /\ LET chunks == SplitIntoChunks(CleanText(gs_text), 1024)
       IN  \E k \in DOMAIN chunks :
              /\ gs_calls' = SubSeq(chunks, 1, k)
              /\ gs_summary' \in ExtractKeySentences(CleanText(gs_text), 3)
    /\ gs_fallback' = TRUE
    /\ gs_pc' = "returned"
    /\ UNCHANGED <<gs_text, gs_max_length, gs_min_length, gsRest>>

\* Lines 68 and 88: the sentence tokenizer raises in _split_into_chunks (its
\* data is missing) and again in extract_key_sentences, outside the try.
GenerateSummaryRaises ==
    /\ gs_pc = "call"
    /\ ~IsTooShort(CleanText(gs_text), gs_min_length)
    /\ gs_fallback' = TRUE
    /\ gs_pc' = "raised"
    /\ UNCHANGED <<gs_text, gs_max_length, gs_min_length, gs_calls, gs_summary,
                   gsRest>>

GsNext ==
    \/ GenerateSummaryShort
    \/ GenerateSummarySummarized
    \/ GenerateSummaryFallback
    \/ GenerateSummaryRaises

SpecSummary == GsInit /\ [][GsNext]_vars

\* Whether t is in whitespace-normal form: single spaces between words only.
IsNormalForm(t) ==
    /\ \A i \in 1..Len(t) : IsSpace(t, i) => CharAt(t, i) = " "
    /\ \A i \in 1..Len(t) :
          IsSpace(t, i) => (i > 1 /\ i < Len(t) /\ ~IsSpace(t, i + 1))

\* C12: a text whose whitespace-normalized form has fewer words than
\* min_length comes back as exactly that normalized form (the same words,
\* single spaces between them), and neither the summarizer nor the
\* extractive fallback is invoked; the call does not raise.
C12_ShortTextReturned ==
    (gs_pc # "call" /\ Len(Split(gs_text)) < gs_min_length) =>
        /\ gs_pc = "returned"
        /\ gs_summary = CleanText(gs_text)
        /\ IsNormalForm(gs_summary)
        /\ Split(gs_summary) = Split(gs_text)
        /\ gs_calls = <<>>
        /\ ~gs_fallback

\* C12 witness: a text of one word with whitespace around it, below a
\* min_length of 2, came back stripped; with min_length 1 it is summarized.
C12_Witness ==
    /\ gs_pc = "returned"
    /\ gs_min_length = 2
    /\ Len(Split(gs_text)) = 1
    /\ gs_summary # gs_text
    /\ gs_calls = <<>>

(***************************************************************************)
(* PharmaNewsAgent.process_articles                                        *)
(***************************************************************************)

\* The longest article list tried.
MaxProcessArticles == 2

\* A body of 50 words in one sentence: long enough for the summarizer.
LongText == Chars(49, "x ") \o "x."

\* The article dicts tried: with or without 'title', with or without
\* 'content'; the content is empty, whitespace, a short text, a long text
\* or None (no str).
ProcessArticlePool ==
    {t @@ c : t \in {EmptyDict, [title |-> "A"], [title |-> "B"]},
              c \in {EmptyDict} \cup {[content |-> b] :
                        b \in {"", " \n", "x x.", " x  x.\n", LongText, None}}}

\* article['content'].strip() raises AttributeError when the value is no str.
BodyRaises(article) == "content" \in DOMAIN article /\ article["content"] = None

\* The test with the strip() left out.
HasBodyNoStrip(article) == "content" \in DOMAIN article /\ article["content"] # ""

\* if 'content' in article and article['content'].strip()
HasBody(article) == "content" \in DOMAIN article /\ Strip(article["content"]) # ""

\* article.get('title', '')
TitleOf(article) == IF "title" \in DOMAIN article THEN article["title"] ELSE ""

\* A handler that lets the exception out of process_articles.
ArticleExceptionPropagates(e) == "raised"

\* except Exception as e: logger.error(...); the loop goes on.
ArticleExceptionHandler(e) == "loop"

PaInit ==
    /\ pa_articles \in SeqsUpTo(ProcessArticlePool, MaxProcessArticles)
    /\ pa_i = 1
    /\ pa_processed = <<>>
    /\ pa_kept = <<>>
    /\ pa_calls = <<>>
    /\ pa_errors = {}
    /\ pa_pc = "loop"
    /\ PaRestIdle

\* One iteration: the article has a body and generate_summary returns.
ProcessSummarize ==
    /\ pa_pc = "loop" /\ pa_i <= Len(pa_articles)
    /\ LET article == pa_articles[pa_i]
       IN  /\ ~BodyRaises(article) /\ HasBody(article)
           /\ \E summary \in GenerateSummaryReturns(article["content"], 150, 50) :
                 pa_processed' = Append(pa_processed, DictSet(article, "summary", summary))
    /\ pa_kept' = Append(pa_kept, pa_i)
    /\ pa_calls' = Append(pa_calls, pa_i)
    /\ pa_i' = pa_i + 1
    /\ UNCHANGED <<pa_articles, pa_errors, pa_pc, paRest>>

\* One iteration: the article has no body; its title is the summary.
ProcessUseTitle ==
    /\ pa_pc = "loop" /\ pa_i <= Len(pa_articles)
    /\ LET article == pa_articles[pa_i]
       IN  /\ ~BodyRaises(article) /\ ~HasBody(article)
           /\ pa_processed' = Append(pa_processed,
                                     DictSet(article, "summary", TitleOf(article)))
    /\ pa_kept' = Append(pa_kept, pa_i)
    /\ pa_i' = pa_i + 1
    /\ UNCHANGED <<pa_articles, pa_calls, pa_errors, pa_pc, paRest>>

\* One iteration: strip() or generate_summary raises; the except clause logs
\* the error and the article is not appended.
ProcessArticleRaises ==
    /\ pa_pc = "loop" /\ pa_i <= Len(pa_articles)
    /\ LET article == pa_articles[pa_i]
       IN  \/ /\ BodyRaises(article)
              /\ pa_calls' = pa_calls
           \/ /\ ~BodyRaises(article) /\ HasBody(article)
              /\ GenerateSummaryMayRaise(article["content"], 50)
              /\ pa_calls' = Append(pa_calls, pa_i)
    /\ pa_errors' = pa_errors \cup {pa_i}
    /\ pa_pc' = ArticleExceptionHandler(pa_i)
    /\ pa_i' = pa_i + 1
    /\ UNCHANGED <<pa_articles, pa_processed, pa_kept, paRest>>

\* return processed_articles
ProcessArticlesReturn ==
    /\ pa_pc = "loop" /\ pa_i > Len(pa_articles)
    /\ pa_pc' = "returned"
    /\ UNCHANGED <<pa_articles, pa_i, pa_processed, pa_kept, pa_calls, pa_errors,
                   paRest>>

PaNext ==
    \/ ProcessSummarize
    \/ ProcessUseTitle
    \/ ProcessArticleRaises
    \/ ProcessArticlesReturn

SpecProcess == PaInit /\ [][PaNext]_vars

\* Whether the body of the article is empty, whitespace-only or absent.
NoBody(article) ==
    \/ "content" \notin DOMAIN article
    \/ /\ article["content"] # None
       /\ \A i \in 1..Len(article["content"]) : IsSpace(article["content"], i)

\* C11: every article whose body is empty, whitespace-only or absent is in
\* the processed list once its iteration is over, with its title as the
\* summary, and generate_summary was not called for it.
C11_NoBodyTitleIsSummary ==
    pa_pc # "idle" =>
        \A i \in 1..(pa_i - 1) :
            NoBody(pa_articles[i]) =>
                /\ i \notin Range(pa_calls)
                /\ \E k \in DOMAIN pa_kept :
                      /\ pa_kept[k] = i
                      /\ pa_processed[k]["summary"] = TitleOf(pa_articles[i])

\* C11 witness: a whitespace-only body and an absent body, both kept with
\* their titles as summaries, next to an article that was summarized.
C11_Witness ==
    /\ pa_pc = "returned"
    /\ Len(pa_articles) = 2 /\ Len(pa_processed) = 2
    /\ "content" \in DOMAIN pa_articles[1] /\ pa_articles[1]["content"] = " \n"
    /\ pa_processed[1]["summary"] = "A"
    /\ pa_calls = <<2>>

\* C16: process_articles never raises; the returned list holds, in the input
\* order, exactly the articles whose processing did not raise, each one the
\* input article with a summary added.
C16_DropsRaisingArticles ==
    /\ pa_pc # "raised"
    /\ pa_pc \in {"loop", "returned"} =>
          /\ Len(pa_processed) = Len(pa_kept)
          /\ \A k \in DOMAIN pa_kept :
                /\ pa_kept[k] \in 1..(pa_i - 1) \ pa_errors
                /\ k > 1 => pa_kept[k - 1] < pa_kept[k]
                /\ "summary" \in DOMAIN pa_processed[k]
                /\ \A key \in DOMAIN pa_articles[pa_kept[k]] :
                      pa_processed[k][key] = pa_articles[pa_kept[k]][key]
          /\ Range(pa_kept) = 1..(pa_i - 1) \ pa_errors
    /\ pa_pc = "returned" => pa_i = Len(pa_articles) + 1

\* C16 witness: the first of two articles raised in strip(), the second was
\* still processed, and the call returned the second alone.
C16_Witness ==
    /\ pa_pc = "returned"
    /\ Len(pa_articles) = 2
    /\ pa_errors = {1}
    /\ pa_kept = <<2>>
    /\ "summary" \in DOMAIN pa_processed[1]

(***************************************************************************)
(* PharmaNewsAgent.run: the continuous loop                                *)
(***************************************************************************)

\* The longest interval and the longest run, in seconds.
MaxInterval == 3
MaxElapsed == 4

\* The stages of run_once, and the positions of the loop of run.
RunStages == {"fetch", "process", "generate", "post"}
LoopPositions == {"start", "ran", "sleep"} \cup RunStages

\* A run_once that posts whatever post_to_social says.
NextStageAlwaysPosts(stage, post_to_social) ==
    CASE stage = "fetch" -> "process"
      [] stage = "process" -> "generate"
      [] stage = "generate" -> "post"
      [] stage = "post" -> "ran"

\* run_once: the stage after `stage`; "ran" when run_once returns.
NextStage(stage, post_to_social) ==
    CASE stage = "fetch" -> "process"
      [] stage = "process" -> "generate"
      [] stage = "generate" -> (IF post_to_social THEN "post" ELSE "ran")
      [] stage = "post" -> "ran"

\* The sleep time without the floor of 0.
SleepSecondsNoFloor(interval, elapsed) == interval - elapsed

\* sleep_seconds = max(0, interval_hours * 3600 - elapsed)
SleepSeconds(interval, elapsed) == Max(0, interval - elapsed)

\* A handler that lets the exception of run_once out of run.
RunExceptionPropagates(e) == "raised"

\* except Exception as e: logger.error(f"Error in agent run: {e}")
RunExceptionHandler(e) == "ran"

\* An interrupt that is held back until the run in progress is over.
InterruptBetweenRuns(at) == IF at \in RunStages THEN at ELSE "stopped"

\* KeyboardInterrupt is no Exception: it leaves run_once and the while loop
\* from wherever it is raised and reaches `except KeyboardInterrupt`.
InterruptHandler(at) == "stopped"

LpInit ==
    /\ lp_interval \in -1..MaxInterval
    /\ lp_post \in BOOLEAN
    /\ lp_stages = <<>>
    /\ lp_failed = FALSE
    /\ lp_last_failed = FALSE
    /\ lp_elapsed = 0
    /\ lp_sleep_seconds = 0
    /\ lp_interrupt = NoInterrupt
    /\ lp_pc = "start"
    /\ LpRestIdle

\* Top of the while loop: start_time = time.time(); run_once is entered.
LoopStart ==
    /\ lp_pc = "start"
    /\ lp_stages' = <<>>
    /\ lp_last_failed' = lp_failed
    /\ lp_failed' = FALSE
    /\ lp_pc' = "fetch"
    /\ UNCHANGED <<lp_interval, lp_post, lp_elapsed, lp_sleep_seconds, lp_interrupt,
                   lpRest>>

\* A stage of run_once finishes.
StageFinishes ==
    /\ lp_pc \in RunStages
    /\ lp_stages' = Append(lp_stages, lp_pc)
    /\ lp_pc' = NextStage(lp_pc, lp_post)
    /\ UNCHANGED <<lp_interval, lp_post, lp_failed, lp_last_failed, lp_elapsed,
                   lp_sleep_seconds, lp_interrupt, lpRest>>

\* A stage of run_once raises an Exception; run logs it.
StageRaises ==
    /\ lp_pc \in RunStages
    /\ lp_failed' = TRUE
    /\ lp_pc' = RunExceptionHandler(lp_pc)
    /\ UNCHANGED <<lp_interval, lp_post, lp_stages, lp_last_failed, lp_elapsed,
                   lp_sleep_seconds, lp_interrupt, lpRest>>

\* elapsed and sleep_seconds are computed; time.sleep is entered.  (The
\* wall clock may have been set back during the run: elapsed -1.)
ComputeSleep ==
    /\ lp_pc = "ran"
    /\ \E e \in -1..MaxElapsed :
          /\ lp_elapsed' = e
          /\ lp_sleep_seconds' = SleepSeconds(lp_interval, e)
    /\ lp_pc' = "sleep"
    /\ UNCHANGED <<lp_interval, lp_post, lp_stages, lp_failed, lp_last_failed,
                   lp_interrupt, lpRest>>

\* time.sleep returns.
WakeUp ==
    /\ lp_pc = "sleep"
    /\ lp_pc' = "start"
    /\ UNCHANGED <<lp_interval, lp_post, lp_stages, lp_failed, lp_last_failed,
                   lp_elapsed, lp_sleep_seconds, lp_interrupt, lpRest>>

\* The external interrupt arrives: KeyboardInterrupt is raised in the main
\* thread at the position the loop is in.
Interrupt ==
    /\ lp_pc \in LoopPositions
    /\ lp_interrupt = NoInterrupt
    /\ lp_interrupt' = [at |-> lp_pc, stages |-> lp_stages]
    /\ lp_pc' = InterruptHandler(lp_pc)
    /\ UNCHANGED <<lp_interval, lp_post, lp_stages, lp_failed, lp_last_failed,
                   lp_elapsed, lp_sleep_seconds, lpRest>>

\* After the handler: logger.info("Agent terminated"); run returns.
Terminate ==
    /\ lp_pc = "stopped"
    /\ lp_pc' = "terminated"
    /\ UNCHANGED <<lp_interval, lp_post, lp_stages, lp_failed, lp_last_failed,
                   lp_elapsed, lp_sleep_seconds, lp_interrupt, lpRest>>

\* The steps of the loop itself.
LoopStep ==
    \/ LoopStart
    \/ StageFinishes
    \/ StageRaises
    \/ ComputeSleep
    \/ WakeUp
    \/ Terminate

LpNext == LoopStep \/ Interrupt

SpecLoop == LpInit /\ [][LpNext]_vars

\* The loop is sequential code: a step that can be taken is taken (every
\* stage and every sleep ends); nothing forces an interrupt to arrive.
SpecLoopFair == SpecLoop /\ WF_vars(LoopStep)

\* C13: the sleep after a run is max(0, interval - elapsed): never negative,
\* 0 when the run took longer than the interval, the remainder otherwise.
C13_SleepIsRemainder ==
    lp_pc = "sleep" =>
        /\ lp_sleep_seconds >= 0
        /\ lp_elapsed > lp_interval => lp_sleep_seconds = 0
        /\ lp_elapsed <= lp_interval => lp_sleep_seconds = lp_interval - lp_elapsed

\* C13 witness: a run of 4 seconds with an interval of 3 sleeps 0 seconds.
C13_Witness ==
    /\ lp_pc = "sleep"
    /\ lp_interval = 3 /\ lp_elapsed = 4
    /\ lp_sleep_seconds = 0

LoopStopped == lp_pc \in {"stopped", "terminated"}

\* C14: unless an interrupt arrives, a run in progress comes to its end
\* whether it raises or not, every finished run is followed by the sleep,
\* and every sleep by the next run; run itself never raises.
C14_LoopGoesOn ==
    /\ [](lp_pc # "raised")
    /\ (lp_pc \in RunStages) ~> (lp_pc = "ran" \/ LoopStopped)
    /\ (lp_pc = "ran") ~> (lp_pc = "sleep" \/ LoopStopped)
    /\ (lp_pc = "sleep") ~> (lp_pc = "fetch" \/ LoopStopped)

\* C14 witness: the run after a run that raised has started, no interrupt
\* having arrived.
C14_Witness ==
    /\ lp_pc = "fetch"
    /\ lp_last_failed
    /\ lp_interrupt = NoInterrupt

\* C15 as stated: an interrupt that arrives during a run leaves the run to
\* finish all its stages before the loop stops.
C15_InterruptBetweenRuns ==
    (LoopStopped /\ lp_interrupt.at \in RunStages) =>
        lp_stages = (IF lp_post THEN <<"fetch", "process", "generate", "post">>
                     ELSE <<"fetch", "process", "generate">>)

\* C15 amended: an interrupt stops the loop where it arrives, mid-run
\* included: no stage of the run in progress finishes after it, there is
\* no further sleep or run, and run does not raise.
C15_InterruptStopsAtOnce ==
    lp_interrupt # NoInterrupt =>
        /\ LoopStopped
        /\ lp_stages = lp_interrupt.stages

\* C15 witness: the interrupt arrived during the process stage; run has
\* returned with only the fetch stage of that run done.
C15_Witness ==
    /\ lp_pc = "terminated"
    /\ lp_interrupt.at = "process"
    /\ lp_stages = <<"fetch">>

(***************************************************************************)
(* utils.save_posts_to_csv                                                 *)
(***************************************************************************)

\* The longest list of post records tried.
MaxPosts == 2

\* The characters of the column names, in code point order.
KeyAlphabet == "_abcdefghijklmnopqrstuvwxyz"
CharCode(c) == CHOOSE i \in 1..Len(KeyAlphabet) : CharAt(KeyAlphabet, i) = c

\* a < b for two str: the order sorted() puts column names in.
RECURSIVE StrLessFrom(_, _, _)
StrLessFrom(a, b, i) ==
    IF i > Len(b) THEN FALSE
    ELSE IF i > Len(a) THEN TRUE
    ELSE IF CharAt(a, i) = CharAt(b, i) THEN StrLessFrom(a, b, i + 1)
    ELSE CharCode(CharAt(a, i)) < CharCode(CharAt(b, i))

StrLess(a, b) == StrLessFrom(a, b, 1)

\* The field names in some order that is not the sorted one, when there is one.
RECURSIVE UnsortedNames(_)
UnsortedNames(names) ==
    IF names = {} THEN <<>>
    ELSE LET hi == CHOOSE x \in names : \A y \in names \ {x} : StrLess(y, x)
         IN  <<hi>> \o UnsortedNames(names \ {hi})

\* sorted(fieldnames)
RECURSIVE SortedNames(_)
SortedNames(names) ==
    IF names = {} THEN <<>>
    ELSE LET lo == CHOOSE x \in names : \A y \in names \ {x} : StrLess(x, y)
         IN  <<lo>> \o SortedNames(names \ {lo})

\* fieldnames: the union of the keys of all records.
FieldNames(posts_data) == UNION {DOMAIN posts_data[i] : i \in DOMAIN posts_data}

\* DictWriter.writerow: the cells of one record under the header; a
\* missing key gives the empty cell (restval).
CsvRow(header, post_data) ==
    [k \in DOMAIN header |->
        IF header[k] \in DOMAIN post_data THEN post_data[header[k]] ELSE ""]

\* What is written: writeheader(), then writerows(posts_data).
CsvContent(posts_data) ==
    LET header == SortedNames(FieldNames(posts_data))
    IN  [header |-> header,
         rows |-> [i \in DOMAIN posts_data |-> CsvRow(header, posts_data[i])]]

\* f'social_posts_{timestamp}.csv', the timestamp to the second.
PostsFile(t) == "social_posts_" \o ToString(t) \o ".csv"

\* The post records tried: any of three columns may be missing.
CsvRecords == Dicts({"twitter_post", "article_title", "article_link"}, {"a", "b"})

CsInit ==
    /\ cs_posts \in SeqsUpTo(CsvRecords, MaxPosts)
    /\ cs_filename \in {None, "posts.csv"}
    /\ cs_filepath = None
    /\ cs_pc = "call"
    /\ CsRestIdle

\* save_posts_to_csv(posts_data, data_dir, filename)
SavePostsToCsv ==
    /\ cs_pc = "call"
    /\ \E name \in (IF cs_filename = None THEN {PostsFile(t) : t \in 0..MaxClock}
                    ELSE {cs_filename}) :
          /\ files' = DictSet(files, name, CsvContent(cs_posts))
          /\ cs_filepath' = name
    /\ cs_pc' = "saved"
    /\ UNCHANGED <<cs_posts, cs_filename, csRest>>

CsNext == SavePostsToCsv

SpecCsv == CsInit /\ [][CsNext]_vars

\* C18: the file holds a header row that is the alphabetically sorted union
\* of the keys of all records, then one data row per record, in input
\* order, with the record's values under the header's columns.
C18_HeaderAndRows ==
    cs_pc = "saved" =>
        LET written == files[cs_filepath]
            header == written.header
        IN  /\ Range(header) = FieldNames(cs_posts)
            /\ \A k \in 1..(Len(header) - 1) : StrLess(header[k], header[k + 1])
            /\ Len(written.rows) = Len(cs_posts)
            /\ \A i \in DOMAIN cs_posts :
                  /\ Len(written.rows[i]) = Len(header)
                  /\ \A k \in DOMAIN header :
                        written.rows[i][k] =
                            (IF header[k] \in DOMAIN cs_posts[i]
                             THEN cs_posts[i][header[k]] ELSE "")

\* C18 witness: two records with different keys; the header has the three
\* columns in alphabetical order and the rows follow the input order.
C18_Witness ==
    /\ cs_pc = "saved"
    /\ Len(cs_posts) = 2
    /\ DOMAIN cs_posts[1] = {"twitter_post"}
    /\ DOMAIN cs_posts[2] = {"article_title", "article_link"}
    /\ files[cs_filepath].header = <<"article_link", "article_title", "twitter_post">>
    /\ files[cs_filepath].rows[1] = <<"", "", "a">>
    /\ files[cs_filepath].rows[2] = <<"b", "a", "">>

(***************************************************************************)
(* PostGenerator._generate_hashtags                                        *)
(***************************************************************************)

\* The largest num_hashtags tried with the long list and with the short one
\* (which has 6 tags).
MaxLongRequest == 3
MaxShortRequest == 7

\* The list the tags are taken from.
HashtagSource(short) == IF short THEN short_hashtags ELSE common_hashtags

HgInit ==
    /\ hg_short \in BOOLEAN
    /\ hg_num \in -1..(IF hg_short THEN MaxShortRequest ELSE MaxLongRequest)
    /\ hg_string = None
    /\ hg_pc = "call"
    /\ HgRestIdle

\* _generate_hashtags(title, content, num_hashtags, short) returns.
GenerateHashtags ==
    /\ hg_pc = "call"
    /\ Min(hg_num, Len(HashtagSource(hg_short))) >= 0
    /\ hg_string' \in HashtagStrings(hg_num, hg_short)
    /\ hg_pc' = "returned"
    /\ UNCHANGED <<hg_num, hg_short, hgRest>>

\* random.sample raises ValueError for a negative sample size.
GenerateHashtagsRaises ==
    /\ hg_pc = "call"
    /\ Min(hg_num, Len(HashtagSource(hg_short))) < 0
    /\ hg_pc' = "raised"
    /\ UNCHANGED <<hg_num, hg_short, hg_string, hgRest>>

HgNext == GenerateHashtags \/ GenerateHashtagsRaises

SpecHashtags == HgInit /\ [][HgNext]_vars

\* The tags of a list of hashtags: the words without their first character.
TagsOf(words) == [i \in DOMAIN words |-> PySuffix(words[i], 1)]

\* C19: for a requested number n >= 0 and either list, the call returns;
\* the returned string holds min(n, size of the list) words, each '#' and a
\* tag of the list, no tag twice.
C19_DistinctTagsFromList ==
    (hg_pc # "call" /\ hg_num >= 0) =>
        /\ hg_pc = "returned"
        /\ LET words == Split(hg_string)
               tags == TagsOf(words)
               source == IF hg_short
                         THEN {"Pharma", "Health", "Med", "Biotech", "Science",
                               "Research"}
                         ELSE {"Pharma", "Pharmaceutical", "Healthcare", "Medicine",
                               "BioTech", "DrugDevelopment", "ClinicalTrials",
                               "MedicalResearch", "HealthTech", "LifeSciences",
                               "PharmaIndustry"}
           IN  /\ Len(words) = Min(hg_num, Cardinality(source))
               /\ \A i \in DOMAIN words :
                     /\ CharAt(words[i], 1) = "#"
                     /\ tags[i] \in source
               /\ \A i, j \in DOMAIN tags : i # j => tags[i] # tags[j]

\* C19 witness: 7 tags asked of the short list of 6; all 6 came back, with
\* 'Research' first.
C19_Witness ==
    /\ hg_pc = "returned"
    /\ hg_short /\ hg_num = 7
    /\ Len(Split(hg_string)) = 6
    /\ TagsOf(Split(hg_string))[1] = "Research"

(***************************************************************************)
(* PharmaNewsAgent.run_once, run after run                                 *)
(***************************************************************************)

\* The number of runs, the last tick of the clock, and the ticks in a
\* second (file names carry the time to the second).
MaxRuns == 2
MaxTicks == 2
TicksPerSecond == 2

\* datetime.now().strftime('%Y%m%d_%H%M%S'): the time cut to the second.
Timestamp(t) == t \div TicksPerSecond

\* An article as fetch_articles returns it: entry j of the first configured
\* feed, with the given body.
FetchedArticle(j, body) ==
    LET url == "https://a.example/rss"
    IN  DictSet(BuildArticle([title |-> FeedTitle(url)], url, j,
                             [published |-> TRUE, summary |-> TRUE,
                              download |-> "text"]),
                "content", body)

\* The lists fetch_news returns: none, an article with a body and one with
\* an empty one, an article with a long body.
FetchedLists ==
    { <<>>,
      <<FetchedArticle(1, ArticleText("https://a.example/rss", 1)),
        FetchedArticle(2, "")>>,
      <<FetchedArticle(1, LongText)>> }

\* d.get(key, '')
GetOrEmpty(d, key) == IF key \in DOMAIN d THEN d[key] ELSE ""

\* generate_posts: the record appended for one article at time t.
PostRecord(article, t) ==
    [article_title |-> GetOrEmpty(article, "title"),
     article_link |-> GetOrEmpty(article, "link"),
     article_source |-> GetOrEmpty(article, "source"),
     article_published |-> GetOrEmpty(article, "published"),
     linkedin_post |-> "LinkedIn post on " \o GetOrEmpty(article, "summary"),
     facebook_post |-> "Facebook post on " \o GetOrEmpty(article, "summary"),
     twitter_post |-> "Twitter post on " \o GetOrEmpty(article, "title"),
     timestamp |-> "time " \o ToString(Timestamp(t))]

\* The elements of s at the positions outside `skip`, in order.
RECURSIVE Without(_, _, _)
Without(s, skip, i) ==
    IF i > Len(s) THEN <<>>
    ELSE (IF i \in skip THEN <<>> ELSE <<s[i]>>) \o Without(s, skip, i + 1)

\* post_to_social: one entry per post record; no platform is configured,
\* so every status dict is empty.
PostingResults(posts_data) ==
    [py |-> "list",
     items |-> [i \in DOMAIN posts_data |->
                  [article_title |-> GetOrEmpty(posts_data[i], "article_title"),
                   status |-> EmptyDict]]]

\* open(path, 'w') by a run: the run is noted as a writer of the path.
WritersAfter(ws, path, run) ==
    DictSet(ws, path, (IF path \in DOMAIN ws THEN ws[path] ELSE {}) \cup {run})

AgInit ==
    /\ now = 0
    /\ ag_run = 0
    /\ ag_post = FALSE
    /\ ag_articles = <<>> /\ ag_processed = <<>> /\ ag_posts_data = <<>>
    /\ ag_posting_results = PyNone
    /\ ag_trace = <<>>
    /\ ag_writers = EmptyDict
    /\ ag_pc = "ready"
    /\ AgRestIdle

\* Time passes.
Tick ==
    /\ ag_pc # "idle"
    /\ now < MaxTicks
    /\ now' = now + 1
    /\ UNCHANGED <<ag_run, ag_post, ag_articles, ag_processed, ag_posts_data,
                   ag_posting_results, ag_trace, ag_writers, ag_pc, files, paVars,
                   agRest>>

\* run_once(max_articles, post_to_social, platforms) is called: by the caller
\* of a single run, or by the loop of run for the next run.
RunOnceCall ==
    /\ ag_pc \in {"ready", "ran", "raised"}
    /\ ag_run < MaxRuns
    /\ ag_run' = ag_run + 1
    /\ ag_post' \in BOOLEAN
    /\ ag_articles' = <<>> /\ ag_processed' = <<>> /\ ag_posts_data' = <<>>
    /\ ag_posting_results' = PyNone
    /\ ag_trace' = <<>>
    /\ ag_pc' = "fetch"
    /\ UNCHANGED <<now, ag_writers, files, paVars, agRest>>

\* articles = self.fetch_news(max_articles); a list that is not empty is
\* saved to articles_<timestamp>.json.
AgentFetch ==
    /\ ag_pc = "fetch"
    /\ \E arts \in FetchedLists :
          /\ ag_articles' = arts
          /\ IF arts # <<>>
             THEN /\ files' = DictSet(files, ArticlesFile(Timestamp(now)), arts)
                  /\ ag_writers' = WritersAfter(ag_writers,
                                                ArticlesFile(Timestamp(now)), ag_run)
             ELSE UNCHANGED <<files, ag_writers>>
    /\ ag_trace' = Append(ag_trace, "fetch")
    /\ ag_pc' = NextStage("fetch", ag_post)
    /\ UNCHANGED <<now, ag_run, ag_post, ag_processed, ag_posts_data,
                   ag_posting_results, paVars, agRest>>

\* self.process_articles(articles) is entered.
AgentProcessCall ==
    /\ ag_pc = "process"
    /\ pa_articles' = ag_articles
    /\ pa_i' = 1
    /\ pa_processed' = <<>> /\ pa_kept' = <<>> /\ pa_calls' = <<>> /\ pa_errors' = {}
    /\ pa_pc' = "loop"
    /\ ag_pc' = "processing"
    /\ UNCHANGED <<now, ag_run, ag_post, ag_articles, ag_processed, ag_posts_data,
                   ag_posting_results, ag_trace, ag_writers, files, agRest>>

\* process_articles has returned.  The processed dicts are the dicts of
\* articles themselves, so articles shows the summaries too.
AgentProcessReturn ==
    /\ ag_pc = "processing" /\ pa_pc = "returned"
    /\ ag_processed' = pa_processed
    /\ ag_articles' = [i \in DOMAIN ag_articles |->
                          IF \E k \in DOMAIN pa_kept : pa_kept[k] = i
                          THEN pa_processed[CHOOSE k \in DOMAIN pa_kept : pa_kept[k] = i]
                          ELSE ag_articles[i]]
    /\ ag_trace' = Append(ag_trace, "process")
    /\ ag_pc' = NextStage("process", ag_post)
    /\ UNCHANGED <<now, ag_run, ag_post, ag_posts_data, ag_posting_results,
                   ag_writers, files, paVars, agRest>>

\* A generate_posts that writes into the article it is given.
ArticleAfterGenerateRewrites(article) == DictSet(article, "summary", "")

\* The article dict after generate_posts and generate_social_posts have
\* handled it: both only read it (article.get(...), article['title'],
\* article['link'], article['content']).
ArticleAfterGenerate(article) == article

\* posts_data = self.generate_posts(processed_articles): a record for every
\* article whose generation did not raise, then save_posts_to_csv, whatever
\* the list holds; posting_results = None.  The dicts of processed_articles
\* are dicts of articles.
AgentGenerate ==
    /\ ag_pc = "generate"
    /\ \E raised \in SUBSET DOMAIN ag_processed :
          LET kept == Without(ag_processed, raised, 1)
              posts_data == [i \in DOMAIN kept |-> PostRecord(kept[i], now)]
          IN  /\ ag_posts_data' = posts_data
              /\ files' = DictSet(files, PostsFile(Timestamp(now)),
                                  CsvContent(posts_data))
    /\ ag_writers' = WritersAfter(ag_writers, PostsFile(Timestamp(now)), ag_run)
    /\ ag_posting_results' = PyNone
    /\ ag_trace' = Append(ag_trace, "generate")
    /\ ag_processed' = [k \in DOMAIN ag_processed |->
                           ArticleAfterGenerate(ag_processed[k])]
    /\ ag_articles' = [i \in DOMAIN ag_articles |->
                          IF i \in Range(pa_kept)
                          THEN ArticleAfterGenerate(ag_articles[i])
                          ELSE ag_articles[i]]
    /\ ag_pc' = NextStage("generate", ag_post)
    /\ UNCHANGED <<now, ag_run, ag_post, paVars, agRest>>

\* posting_results = self.post_to_social(posts_data, platforms)
AgentPost ==
    /\ ag_pc = "post"
    /\ ag_posting_results' = PostingResults(ag_posts_data)
    /\ ag_trace' = Append(ag_trace, "post")
    /\ ag_pc' = NextStage("post", ag_post)
    /\ UNCHANGED <<now, ag_run, ag_post, ag_articles, ag_processed, ag_posts_data,
                   ag_writers, files, paVars, agRest>>

\* The file of a stage cannot be written (OSError); run_once has no handler.
AgentWriteFails ==
    /\ ag_pc \in {"fetch", "generate"}
    /\ ag_pc' = "raised"
    /\ UNCHANGED <<now, ag_run, ag_post, ag_articles, ag_processed, ag_posts_data,
                   ag_posting_results, ag_trace, ag_writers, files, paVars, agRest>>

AgNext ==
    \/ Tick
    \/ RunOnceCall
    \/ AgentFetch
    \/ AgentProcessCall
    \/ PaNext
    \/ AgentProcessReturn
    \/ AgentGenerate
    \/ AgentPost
    \/ AgentWriteFails

SpecAgent == AgInit /\ [][AgNext]_vars

\* C17: every path is written by one run only: no run writes a file that
\* an earlier run wrote.
C17_NoRunOverwrites ==
    \A path \in DOMAIN ag_writers : Cardinality(ag_writers[path]) <= 1

StageOrder == <<"fetch", "process", "generate", "post">>

\* C20: the finished stages of a run are, at every moment, the first ones of
\* fetch, process, generate, post (each at most once, in that order), the
\* tabular file of the run exists once generate has finished, posting has
\* run only if post_to_social is true; when run_once returns, posting has
\* run exactly if post_to_social is true, and the posting results are None
\* exactly if it has not run.
C20_StagesInOrder ==
    ag_pc \notin {"idle", "ready"} =>
        /\ IsPrefix(ag_trace, StageOrder)
        /\ Len(ag_trace) >= 3 =>
              \E t \in 0..Timestamp(now) :
                 /\ PostsFile(t) \in DOMAIN files
                 /\ ag_run \in ag_writers[PostsFile(t)]
                 /\ files[PostsFile(t)] = CsvContent(ag_posts_data)
        /\ Len(ag_trace) = 4 => ag_post
        /\ ag_pc = "ran" =>
              /\ Len(ag_trace) = (IF ag_post THEN 4 ELSE 3)
              /\ (ag_posting_results = PyNone) <=> (Len(ag_trace) = 3)
        /\ ag_pc # "ran" /\ Len(ag_trace) < 4 => ag_posting_results = PyNone

\* C20 witness: a run with post_to_social went through the four stages
\* and returned posting results for one post record.
C20_Witness ==
    /\ ag_pc = "ran"
    /\ ag_post
    /\ ag_trace = StageOrder
    /\ Len(ag_posts_data) = 1
    /\ ag_posting_results # PyNone
    /\ Len(ag_posting_results.items) = 1

\* Whether `after` is the record `before`, with at most a summary attached.
SummaryAttached(before, after) ==
    /\ DOMAIN before \subseteq DOMAIN after
    /\ DOMAIN after \ DOMAIN before \subseteq {"summary"}
    /\ \A key \in DOMAIN before : after[key] = before[key]

\* C22: within a run, the article records change only in the processing
\* stage (after fetch has made them): generate_posts and post_to_social
\* leave every record as it is; processing gives a record its summary and
\* nothing else, and a record that has its summary is not touched again.
C22_OnlyProcessingChangesArticles ==
    /\ [](Len(ag_trace) >= 2 =>
             /\ Len(ag_articles) = Len(pa_articles)
             /\ \A i \in DOMAIN ag_articles :
                   /\ SummaryAttached(pa_articles[i], ag_articles[i])
                   /\ i \in Range(pa_kept) <=> "summary" \in DOMAIN ag_articles[i]
             /\ ag_processed = [k \in DOMAIN pa_kept |-> ag_articles[pa_kept[k]]])
    /\ [][/\ (ag_articles' # ag_articles \/ ag_processed' # ag_processed) =>
                \/ ag_run' # ag_run
                \/ ag_pc = "fetch"
                \/ ag_pc = "processing"
          /\ (ag_pc = "processing" /\ ag_pc' = "processing") =>
                /\ pa_articles' = pa_articles
                /\ IsPrefix(pa_processed, pa_processed')]_vars

\* C22 witness: a run with posting has returned; of its two articles both
\* carry a summary, and post records were made and posted for both.
C22_Witness ==
    /\ ag_pc = "ran"
    /\ ag_trace = StageOrder
    /\ Len(ag_articles) = 2
    /\ \A i \in 1..2 : "summary" \in DOMAIN ag_articles[i]
    /\ Len(ag_posts_data) = 2
    /\ ag_posting_results # PyNone

(***************************************************************************)
(* ContentProcessor._split_into_chunks                                     *)
(***************************************************************************)

\* The largest word budget tried.
MaxChunkLength == 3

ChInit ==
    /\ ch_text \in Strings(TextAlphabet, MaxTextLen)
    /\ ch_max_chunk_length \in 1..MaxChunkLength
    /\ ch_chunks = <<>>
    /\ ch_pc = "call"
    /\ ChRestIdle

\* Lines 105-119: the sentences of the text are gathered into chunks.
SplitIntoChunksCall ==
    /\ ch_pc = "call"
    /\ ch_chunks' = SplitIntoChunks(ch_text, ch_max_chunk_length)
    /\ ch_pc' = "returned"
    /\ UNCHANGED <<ch_text, ch_max_chunk_length, chRest>>

ChNext == SplitIntoChunksCall

SpecChunks == ChInit /\ [][ChNext]_vars

\* The k-th smallest element of a set of numbers.
NthSmallest(S, k) == CHOOSE b \in S : Cardinality({c \in S : c < b}) = k - 1

\* The chunks that cutting sents after the sentences numbered in cuts gives:
\* consecutive, non-empty runs of whole sentences, joined as the code joins.
ChunksOfCuts(sents, cuts) ==
    LET ends == cuts \cup {0, Len(sents)}
    IN  [k \in 1..(Cardinality(ends) - 1) |->
            Join(" ", SubSeq(sents, NthSmallest(ends, k) + 1,
                             NthSmallest(ends, k + 1)))]

\* C21: the returned chunks are a partition of the sentences, in order and
\* without loss or duplication, into consecutive non-empty runs of whole
\* sentences, and every chunk has at most max_chunk_length words.
C21_ChunksPartition ==
    ch_pc = "returned" =>
        LET sents == SentTokenize(ch_text)
        IN  /\ \E cuts \in SUBSET (1..(Len(sents) - 1)) :
                   ch_chunks = ChunksOfCuts(sents, cuts)
            /\ \A k \in DOMAIN ch_chunks :
                   /\ ch_chunks[k] # ""
                   /\ Len(Split(ch_chunks[k])) <= ch_max_chunk_length

(***************************************************************************)
(* utils.retry_with_backoff                                                *)
(***************************************************************************)

\* The largest arguments tried.
MaxRetries == 3
MaxInitialDelay == 2
MaxBackoffFactor == 2

\* random.uniform(0.8, 1.2), in tenths.
Jitters == {8, 10, 12}

\* What the k-th call of func returns, and the exception it raises.
ResultOfCall(k) == "result " \o ToString(k)
ExceptionOfCall(k) == "error " \o ToString(k)

\* if retries >= max_retries: the attempts are used up.
RetriesUsedUp(retries, max_retries) == retries >= max_retries

RtInit ==
    /\ rt_max_retries \in 0..MaxRetries
    /\ rt_initial_delay \in 1..MaxInitialDelay
    /\ rt_backoff_factor \in 1..MaxBackoffFactor
    /\ rt_retries = 0
    /\ rt_delay = rt_initial_delay
    /\ rt_calls = <<>>
    /\ rt_sleeps = <<>>
    /\ rt_outcome = NoOutcome
    /\ rt_pc = "loop"
    /\ RtRestIdle

\* Lines 112-114: func() returns and its result is returned.
RetryCallReturns ==
    /\ rt_pc = "loop" /\ rt_retries < rt_max_retries
    /\ rt_calls' = Append(rt_calls, "returned")
    /\ rt_outcome' = [kind |-> "returned", value |-> ResultOfCall(Len(rt_calls) + 1)]
    /\ rt_pc' = "returned"
    /\ UNCHANGED <<rt_max_retries, rt_initial_delay, rt_backoff_factor, rt_retries,
                   rt_delay, rt_sleeps, rtRest>>

\* Lines 115-128: func() raises an Exception and attempts are left: the
\* jittered delay is slept and the delay is multiplied.
RetryCallRaises ==
    /\ rt_pc = "loop" /\ rt_retries < rt_max_retries
    /\ ~RetriesUsedUp(rt_retries + 1, rt_max_retries)
    /\ rt_calls' = Append(rt_calls, "Exception")
    /\ rt_retries' = rt_retries + 1
    /\ \E jitter \in Jitters :
          rt_sleeps' = Append(rt_sleeps, [after |-> Len(rt_calls) + 1,
                                         delay |-> rt_delay,
                                         sleep_time |-> rt_delay * jitter])
    /\ rt_delay' = rt_delay * rt_backoff_factor
    /\ UNCHANGED <<rt_max_retries, rt_initial_delay, rt_backoff_factor, rt_outcome,
                   rt_pc, rtRest>>

\* Lines 115-119: func() raises an Exception and the attempts are used up:
\* the exception is raised again.
RetryCallRaisesLast ==
    /\ rt_pc = "loop" /\ rt_retries < rt_max_retries
    /\ RetriesUsedUp(rt_retries + 1, rt_max_retries)
    /\ rt_calls' = Append(rt_calls, "Exception")
    /\ rt_retries' = rt_retries + 1
    /\ rt_outcome' = [kind |-> "raised", value |-> ExceptionOfCall(Len(rt_calls) + 1)]
    /\ rt_pc' = "raised"
    /\ UNCHANGED <<rt_max_retries, rt_initial_delay, rt_backoff_factor, rt_delay,
                   rt_sleeps, rtRest>>

\* Line 114: func() raises what `except Exception` lets through (a
\* KeyboardInterrupt, a SystemExit): it leaves retry_with_backoff at once.
RetryCallInterrupted ==
    /\ rt_pc = "loop" /\ rt_retries < rt_max_retries
    /\ rt_calls' = Append(rt_calls, "BaseException")
    /\ rt_outcome' = [kind |-> "raised", value |-> ExceptionOfCall(Len(rt_calls) + 1)]
    /\ rt_pc' = "raised"
    /\ UNCHANGED <<rt_max_retries, rt_initial_delay, rt_backoff_factor, rt_retries,
                   rt_delay, rt_sleeps, rtRest>>

\* Line 112: the while condition is false; the function body ends and the
\* call returns None.
RetryLoopEnds ==
    /\ rt_pc = "loop" /\ ~(rt_retries < rt_max_retries)
    /\ rt_outcome' = [kind |-> "returned", value |-> None]
    /\ rt_pc' = "returned"
    /\ UNCHANGED <<rt_max_retries, rt_initial_delay, rt_backoff_factor, rt_retries,
                   rt_delay, rt_calls, rt_sleeps, rtRest>>

RtNext ==
    \/ RetryCallReturns
    \/ RetryCallRaises
    \/ RetryCallRaisesLast
    \/ RetryCallInterrupted
    \/ RetryLoopEnds

SpecRetry == RtInit /\ [][RtNext]_vars

\* The delay before jitter of the j-th sleep.
BaseDelay(j) == rt_initial_delay * rt_backoff_factor ^ (j - 1)

\* C23: func is called at most max_retries times and no call follows a
\* successful one; there is exactly one sleep between two consecutive calls,
\* the j-th one of the initial delay times backoff_factor^(j-1) (jittered);
\* a return hands back the result of the last call, which succeeded; a
\* raise hands on the exception of the last call, which failed; so nothing
\* is returned without a successful call.
C23_RetryContract ==
    rt_pc # "idle" =>
        /\ Len(rt_calls) <= rt_max_retries
        /\ \A k \in 1..(Len(rt_calls) - 1) : rt_calls[k] # "returned"
        /\ Len(rt_sleeps) = (IF rt_pc = "loop" \/ rt_calls = <<>>
                             THEN Len(rt_calls) ELSE Len(rt_calls) - 1)
        /\ \A j \in DOMAIN rt_sleeps :
              /\ rt_sleeps[j].after = j
              /\ rt_sleeps[j].delay = BaseDelay(j)
              /\ rt_sleeps[j].sleep_time \in (8 * BaseDelay(j))..(12 * BaseDelay(j))
        /\ rt_pc = "returned" =>
              /\ rt_calls # <<>>
              /\ rt_calls[Len(rt_calls)] = "returned"
              /\ rt_outcome = [kind |-> "returned",
                               value |-> ResultOfCall(Len(rt_calls))]
        /\ rt_pc = "raised" =>
              /\ rt_calls # <<>>
              /\ rt_calls[Len(rt_calls)] # "returned"
              /\ rt_outcome = [kind |-> "raised",
                               value |-> ExceptionOfCall(Len(rt_calls))]
              /\ rt_calls[Len(rt_calls)] = "Exception" =>
                    Len(rt_calls) = rt_max_retries


====
